---- MODULE Spec2Model ----
(***************************************************************************)
(* Ziva backend (src/Backend/server.js): the speech worker manager, the    *)
(* session store, the conversational responder (processWithGemini) and the *)
(* /chat, /talk and /clear-history request handlers, as one state machine. *)
(*                                                                         *)
(* Scheduling: Node's single-threaded event loop.  One action is one       *)
(* macrotask (an I/O event, a timer, an HTTP request arriving) run to its   *)
(* first await, or one promise reaction (microtask).  Macrotasks start only *)
(* when the microtask queue is empty.                                      *)
(***************************************************************************)
EXTENDS Integers, Sequences, FiniteSets, TLC

\* ------------------------------------------------------------------ bounds
MaxReq == 5     \* speech requests (payload ids) issued in one behaviour
MaxSpawn == 2   \* worker processes spawned in one behaviour
MaxBuf == 1     \* symbols of a partial line left in the stdout buffer
MaxClient == 3  \* highest id a direct caller of the manager may use
MaxHttp == 1    \* /chat and /talk requests in one behaviour
MaxCalls == 2   \* direct calls of processWithGemini, or POST /tts requests
MaxArr == 2     \* history arrays alive at one time
MaxNow == 2     \* values Date.now() takes in one behaviour
MaxSub == 2     \* GET /logs/stream subscribers in one behaviour
MaxEmit == 3    \* events emitted by direct calls of logEvent
MaxPing == 1    \* keepalive pings written to one subscriber
MaxClear == 1   \* /clear-history requests in one behaviour

\* ------------------------------------------------------- program constants
DefaultTimeoutMs == 60000    \* _speechRequest's default timeoutMs
WarmupTimeoutMs == 120000    \* warmupSpeechModels
TtsTimeoutMs == 120000       \* textToSpeech
SttTimeoutMs == 60000        \* POST /talk

ReqIds == 1..MaxReq
Pids == 1..MaxSpawn
HttpIds == 1..MaxCalls
Clock == 1..MaxNow
SubIds == 1..MaxSub
ArrIds == 1..MaxArr

Min(S) == CHOOSE x \in S : \A y \in S : x <= y

\* ------------------------------------------------------------------ strings
\* A string is a sequence of tokens; " " is a whitespace token.
WS == " "

RECURSIVE TrimStart(_, _)
TrimStart(s, w) ==
    IF s # <<>> /\ Head(s) = w THEN TrimStart(Tail(s), w) ELSE s

RECURSIVE TrimEnd(_, _)
TrimEnd(s, w) ==
    IF s # <<>> /\ s[Len(s)] = w
    THEN TrimEnd(SubSeq(s, 1, Len(s) - 1), w) ELSE s

\* String.prototype.trim on a string of tokens
Trim(s) == TrimEnd(TrimStart(s, WS), WS)

\* ------------------------------------------------- worker protocol messages
\* A response object {id, ok, text?, error?}.  id = 0: no id (falsy);
\* error = <<>>: no error text (falsy).
NoMsg == [id |-> 0, ok |-> FALSE, text |-> <<>>, error |-> <<>>]

Response(i, o, t, e) == [id |-> i, ok |-> o, text |-> t, error |-> e]

\* The worker's stdout is a stream of symbols: a newline, a blank, text that
\* is no JSON, and the JSON text of a message in two parts (so that a chunk
\* boundary can fall inside a line).
NL == [k |-> "nl", m |-> NoMsg]
SP == [k |-> "sp", m |-> NoMsg]
Junk == [k |-> "junk", m |-> NoMsg]
H1(m) == [k |-> "h1", m |-> m]
H2(m) == [k |-> "h2", m |-> m]

\* JSON.stringify(m), and the line the worker prints for m
Encode(m) == <<H1(m), H2(m)>>
LineOf(m) == Encode(m) \o <<NL>>

\* stdout delivers bytes.  When the text of m has a character of two bytes,
\* the same line can also be cut between these two bytes: L(m) is the line's
\* bytes up to the first of them, T(m) its bytes from the second on.
L(m) == [k |-> "lead", m |-> m]
T(m) == [k |-> "trail", m |-> m]
RawLineOf(m) == <<L(m), T(m), NL>>

\* what decoding gives for bytes that end, or begin, inside a character: the
\* text with U+FFFD in the place of the half character
G1(m) == [k |-> "g1", m |-> m]
G2(m) == [k |-> "g2", m |-> m]
Garbled(text) == <<"U+FFFD", "U+FFFD">> \o text

\* chunk.toString(): each chunk is decoded by itself
RECURSIVE toString(_)
toString(chunk) ==
    IF \A i \in 1..Len(chunk) : chunk[i].k \notin {"lead", "trail"} THEN chunk
    ELSE IF Head(chunk).k = "lead"
    THEN IF Len(chunk) >= 2 /\ chunk[2] = T(Head(chunk).m)
         THEN Encode(Head(chunk).m) \o toString(SubSeq(chunk, 3, Len(chunk)))
         ELSE <<G1(Head(chunk).m)>> \o toString(Tail(chunk))
    ELSE IF Head(chunk).k = "trail"
    THEN <<G2(Head(chunk).m)>> \o toString(Tail(chunk))
    ELSE <<Head(chunk)>> \o toString(Tail(chunk))

\* line.trim() on a stdout line
TrimLine(s) == TrimEnd(TrimStart(s, SP), SP)

\* JSON.parse(line): [ok |-> FALSE] when it throws
ParseError == [ok |-> FALSE, msg |-> NoMsg]
JSONparse(line) ==
    IF /\ Len(line) = 2
       /\ line[1].k = "h1"
       /\ line[2].k = "h2"
       /\ line[1].m = line[2].m
    THEN [ok |-> TRUE, msg |-> line[1].m]
    ELSE IF /\ Len(line) = 2
            /\ line[1].k = "g1"
            /\ line[2].k = "g2"
            /\ line[1].m = line[2].m
    THEN [ok |-> TRUE, msg |-> [line[1].m EXCEPT !.text = Garbled(@)]]
    ELSE ParseError

\* buf.indexOf('\n'), 1-based; 0 when there is none (JavaScript's -1)
IndexOfNL(s) ==
    IF \E i \in 1..Len(s) : s[i] = NL
    THEN Min({i \in 1..Len(s) : s[i] = NL})
    ELSE 0

\* ------------------------------------------------------------------- errors
NoErr == [tag |-> "none", ms |-> 0, text |-> <<>>]
ErrDisabled == [NoErr EXCEPT !.tag = "disabled"]
ErrTimeout(ms) == [NoErr EXCEPT !.tag = "timeout", !.ms = ms]
\* new Error(`speech worker exited (code=..., signal=...)`)
ErrExit == [NoErr EXCEPT !.tag = "exit"]
\* the error of the child's 'error' event
ErrSpawn == [NoErr EXCEPT !.tag = "spawn"]
ErrWrite == [NoErr EXCEPT !.tag = "write"]
\* new Error(msg.error || 'speech worker error')
ErrWorker(e) ==
    [NoErr EXCEPT !.tag = "worker",
                  !.text = IF e # <<>> THEN e ELSE <<"speech worker error">>]

VARIABLES
    useSpeechWorker,        \* USE_SPEECH_WORKER
    speechWorker,           \* _speechWorker: 0 (null) or the handle's pid
    proc,                   \* each spawned child process's condition
    speechWorkerStdoutBuf,  \* _speechWorkerStdoutBuf
    speechPending,          \* _speechPending: the ids that have an entry
    promise,                \* the promise _speechRequest returned for an id
    timer,                  \* the timeout handle of an id
    microtasks,             \* promise reactions queued, oldest first
    ffmpegPath,             \* whether ffmpeg-static resolved a binary
    chatSessions,           \* chatSessions: session id -> array (0: no entry)
    heap,                   \* the history arrays, by reference
    activeModelId,          \* activeModelId
    model,                  \* model: the id the current model object is for
    http,                   \* the /chat and /talk requests
    completions,            \* history: per session, requests in the order
                            \* their model call succeeded
    clears,                 \* history: the /clear-history requests so far
    now,                    \* Date.now()
    disk,                   \* the tts_<ms>.wav files: whose audio each holds
    logStreams,             \* _logStreams: the registered clients
    client,                 \* the client objects {res, sessionId}
    emitted                 \* history: the events given to _emitToBrowsers

mgrVars == <<useSpeechWorker, speechWorker, proc, speechWorkerStdoutBuf,
             speechPending, promise, timer, microtasks>>

\* The manager's state as one value, so that a handler can apply several
\* manager calls in one step.
Mgr ==
    [worker |-> speechWorker, proc |-> proc, buf |-> speechWorkerStdoutBuf,
     pending |-> speechPending, promise |-> promise, timer |-> timer,
     micro |-> microtasks]

SetMgr(m) ==
    /\ speechWorker' = m.worker
    /\ proc' = m.proc
    /\ speechWorkerStdoutBuf' = m.buf
    /\ speechPending' = m.pending
    /\ promise' = m.promise
    /\ timer' = m.timer
    /\ microtasks' = m.micro

NoPromise == [state |-> "none", msg |-> NoMsg, err |-> NoErr, calls |-> 0]
NoTimer == [st |-> "none", ms |-> 0]

\* clearTimeout(pending.timeout)
clearTimeout(m, k) ==
    [m EXCEPT !.timer[k].st = IF @ = "armed" THEN "cleared" ELSE @]

\* A call of a promise's resolve or reject function: it settles the promise
\* and queues its reaction only if the promise is still pending.
Settle(m, k, st, msg, err) ==
    IF m.promise[k].state = "pending"
    THEN [m EXCEPT !.promise[k] = [state |-> st, msg |-> msg, err |-> err,
                                   calls |-> @.calls + 1],
                   !.micro = Append(@, k)]
    ELSE [m EXCEPT !.promise[k].calls = @ + 1]

resolve(m, k, msg) == Settle(m, k, "resolved", msg, NoErr)
reject(m, k, err) == Settle(m, k, "rejected", NoMsg, err)

RECURSIVE RejectEach(_, _, _)
RejectEach(m, ids, err) ==
    IF ids = {} THEN m
    ELSE LET k == Min(ids)
         IN RejectEach(reject(clearTimeout(m, k), k, err), ids \ {k}, err)

\* mutant: the table is cleared but the callers are not told
rejectAllSpeechPending_ClearOnly(m, err) == [m EXCEPT !.pending = {}]

\* _rejectAllSpeechPending(err).  The Map iterates in insertion order, which
\* is the order of the ids.
rejectAllSpeechPending(m, err) ==
    [RejectEach(m, m.pending, err) EXCEPT !.pending = {}]

\* ChildProcess.killed: set only by a successful kill(), which the program
\* never calls.
Killed(p) == FALSE

Spawned(m) == {p \in Pids : m.proc[p] # "unborn"}
NextPid(m) == Cardinality(Spawned(m)) + 1

\* mutant: USE_SPEECH_WORKER is not looked at
WouldSpawn_AnyMode(m) == ~(m.worker # 0 /\ ~Killed(m.worker))

\* whether _ensureSpeechWorker would call spawn
WouldSpawn(m) ==
    useSpeechWorker /\ ~(m.worker # 0 /\ ~Killed(m.worker))

\* mutant: spawns on every call
ensureSpeechWorker_AlwaysSpawn(m, o) ==
    IF ~useSpeechWorker \/ NextPid(m) > MaxSpawn THEN m
    ELSE [m EXCEPT !.buf = <<>>, !.worker = NextPid(m),
                   !.proc[NextPid(m)] = o]

\* _ensureSpeechWorker: the manager state after the call.  o is what becomes
\* of the spawn: "running", or "doomed" (the spawn failed and the child will
\* emit 'error').
ensureSpeechWorker(m, o) ==
    IF ~WouldSpawn(m) THEN m
    ELSE [m EXCEPT !.buf = <<>>, !.worker = NextPid(m),
                   !.proc[NextPid(m)] = o]

\* the handle _ensureSpeechWorker returns (0: null)
EnsureResult(m, o) ==
    IF ~useSpeechWorker THEN 0 ELSE ensureSpeechWorker(m, o).worker

\* mutant: no timer is armed for the request
speechRequest_NoTimer(m0, k, ms, o, writeThrows) ==
    LET m == ensureSpeechWorker(m0, o)
    IN IF EnsureResult(m0, o) = 0
       THEN [m EXCEPT !.promise[k] = [NoPromise EXCEPT !.state = "rejected",
                                                       !.err = ErrDisabled],
                      !.micro = Append(@, k)]
       ELSE [m EXCEPT !.promise[k] = [NoPromise EXCEPT !.state = "pending"],
                      !.pending = @ \cup {k}]

\* mutant: a failed write rejects and leaves the entry and its timer
speechRequest_KeepOnWriteError(m0, k, ms, o, writeThrows) ==
    LET m == ensureSpeechWorker(m0, o)
    IN IF EnsureResult(m0, o) = 0
       THEN [m EXCEPT !.promise[k] = [NoPromise EXCEPT !.state = "rejected",
                                                       !.err = ErrDisabled],
                      !.micro = Append(@, k)]
       ELSE LET m1 == [m EXCEPT
                         !.promise[k] = [NoPromise EXCEPT !.state = "pending"],
                         !.timer[k] = [st |-> "armed", ms |-> ms],
                         !.pending = @ \cup {k}]
            IN IF writeThrows THEN reject(m1, k, ErrWrite) ELSE m1

\* _speechRequest(payload, {timeoutMs}) with payload.id = k.
speechRequest(m0, k, ms, o, writeThrows) ==
    LET m == ensureSpeechWorker(m0, o)
    IN IF EnsureResult(m0, o) = 0
       THEN [m EXCEPT !.promise[k] = [NoPromise EXCEPT !.state = "rejected",
                                                       !.err = ErrDisabled],
                      !.micro = Append(@, k)]
       ELSE LET m1 == [m EXCEPT
                         !.promise[k] = [NoPromise EXCEPT !.state = "pending"],
                         !.timer[k] = [st |-> "armed", ms |-> ms],
                         !.pending = @ \cup {k}]
            IN IF writeThrows
               THEN reject([clearTimeout(m1, k) EXCEPT !.pending = @ \ {k}],
                           k, ErrWrite)
               ELSE m1

\* mutant: the entry stays in the table
onTimeout_KeepEntry(m, k) ==
    reject([m EXCEPT !.timer[k].st = "fired"], k, ErrTimeout(m.timer[k].ms))

\* mutant: a timeout rejects every pending request
onTimeout_RejectAll(m, k) ==
    rejectAllSpeechPending([m EXCEPT !.timer[k].st = "fired"],
                           ErrTimeout(m.timer[k].ms))

\* the timer callback of _speechRequest
onTimeout(m, k) ==
    reject([m EXCEPT !.pending = @ \ {k}, !.timer[k].st = "fired"],
           k, ErrTimeout(m.timer[k].ms))

\* mutant: the entry of the first pending id is taken, whatever the line's id
Lookup_First(m, id) == IF m.pending = {} THEN 0 ELSE Min(m.pending)

\* _speechPending.get(id): the entry's id, 0 when there is none
Lookup(m, id) == IF id \in m.pending THEN id ELSE 0

\* mutant: msg.ok is not looked at
onMessage_AlwaysResolve(m, msg) ==
    LET k == Lookup(m, msg.id)
    IN IF msg.id = 0 \/ k = 0 THEN m
       ELSE resolve(clearTimeout([m EXCEPT !.pending = @ \ {k}], k), k, msg)

\* one parsed line of the stdout handler, from `const id = msg && msg.id`
onMessage(m, msg) ==
    LET k == Lookup(m, msg.id)
    IN IF msg.id = 0 \/ k = 0 THEN m
       ELSE LET m1 == clearTimeout([m EXCEPT !.pending = @ \ {k}], k)
            IN IF msg.ok THEN resolve(m1, k, msg)
               ELSE reject(m1, k, ErrWorker(msg.error))

\* mutant: the loop ends at a line it cannot use
RECURSIVE DrainLines_StopOnBad(_)
DrainLines_StopOnBad(m) ==
    LET idx == IndexOfNL(m.buf)
    IN IF idx = 0 THEN m
       ELSE LET line == TrimLine(SubSeq(m.buf, 1, idx - 1))
                m1 == [m EXCEPT !.buf = SubSeq(m.buf, idx + 1, Len(m.buf))]
                parsed == JSONparse(line)
            IN IF line = <<>> \/ ~parsed.ok THEN m1
               ELSE DrainLines_StopOnBad(onMessage(m1, parsed.msg))

\* the while loop of the stdout handler
RECURSIVE DrainLines(_)
DrainLines(m) ==
    LET idx == IndexOfNL(m.buf)
    IN IF idx = 0 THEN m
       ELSE LET line == TrimLine(SubSeq(m.buf, 1, idx - 1))
                m1 == [m EXCEPT !.buf = SubSeq(m.buf, idx + 1, Len(m.buf))]
                parsed == JSONparse(line)
            IN IF line = <<>> \/ ~parsed.ok THEN DrainLines(m1)
               ELSE DrainLines(onMessage(m1, parsed.msg))

\* _speechWorker.stdout.on('data')
onStdoutData(m, chunk) == DrainLines([m EXCEPT !.buf = @ \o toString(chunk)])

\* _speechWorker.on('error')
onWorkerError(m, p) ==
    [rejectAllSpeechPending(m, ErrSpawn) EXCEPT !.proc[p] = "failed"]

\* mutant: the exit handler forgets the worker and leaves the table
onWorkerExit_KeepPending(m, p) ==
    [m EXCEPT !.worker = 0, !.proc[p] = "exited"]

\* _speechWorker.on('exit')
onWorkerExit(m, p) ==
    [rejectAllSpeechPending(m, ErrExit) EXCEPT !.worker = 0,
                                                   !.proc[p] = "exited"]

EmptyMgr ==
    [worker |-> 0, proc |-> [p \in Pids |-> "unborn"], buf |-> <<>>,
     pending |-> {}, promise |-> [k \in ReqIds |-> NoPromise],
     timer |-> [k \in ReqIds |-> NoTimer], micro |-> <<>>]

\* the next payload id: _makeReqId never repeats one
NextReqId(m) == Cardinality({k \in ReqIds : m.promise[k].state # "none"}) + 1

\* warmupSpeechModels(), run once when the module is loaded
warmupSpeechModels(m, o, writeThrows) ==
    IF useSpeechWorker
    THEN speechRequest(ensureSpeechWorker(m, o), NextReqId(m),
                       WarmupTimeoutMs, o, writeThrows)
    ELSE m

\* ------------------------------------------------------------ session store
Sessions == {"default", "s1"}

\* (req.body && req.body.sessionId) || 'default'; "" is an absent field
SessionOf(x) == IF x = "" THEN "default" ELSE x

Turn(role, text) == [role |-> role, text |-> text]

\* mutant: only the user turn is stored
HistoryPush_UserOnly(h, userMessage, text) ==
    h \o <<Turn("user", userMessage)>>

\* mutant: the model turn is stored before the user turn
HistoryPush_ModelFirst(h, userMessage, text) ==
    h \o <<Turn("model", text), Turn("user", userMessage)>>

\* history.push({role: "user", ...}, {role: "model", ...})
HistoryPush(h, userMessage, text) ==
    h \o <<Turn("user", userMessage), Turn("model", text)>>

\* --------------------------------------------------- conversational responder
MODEL_CANDIDATES == <<"gemini-2.5-flash", "gemini-2.5-pro">>

\* getModel(modelId): the model object, known by the id it was made for
getModel(modelId) == modelId

VALID_EXPRESSIONS == {"default", "smile", "sad", "surprised", "angry", "crazy"}
VALID_ANIMATIONS ==
    {"Angry", "Arguing", "BlowKiss", "Clapping", "Excited",
     "GangamStyleDance", "Greeting", "Happy", "Idle", "LookAround", "No",
     "SalsaDance", "SambaDance", "Talking", "Thankful", "Thinking",
     "ThoughtfulHeadNod", "ThoughtfulHeadShake"}

Reply(t, fe, an, ex) ==
    [text |-> t, facialExpression |-> fe, animation |-> an, exhausted |-> ex]
NoReply == Reply(<<>>, "", "", FALSE)

\* the reply returned on quota exhaustion
QuotaFallback == Reply(<<"Sorry, the Gemini API free tier quota has been exceeded">>,
                       "sad", "Idle", TRUE)

\* An error of the model call: err.status (0: none) and which of the three
\* phrases err.message includes.
GErr(st, tooMany, quota, limit0) ==
    [status |-> st, tooMany |-> tooMany, quota |-> quota, limit0 |-> limit0]
NoGErr == GErr(0, FALSE, FALSE, FALSE)

\* The provider's sign of an exhausted quota: status 429, or a message that
\* speaks of the quota.
QuotaSignal(err) == err.status = 429 \/ err.quota \/ err.limit0

\* the condition of the catch block's quota branch
IsQuotaError(err) ==
    /\ (err.status = 429 \/ err.quota \/ err.limit0)
    /\ (err.tooMany \/ err.quota \/ err.limit0)

\* What the model call can end in: a response whose text is the JSON of an
\* object, is the JSON null, is no JSON, or a thrown error.
GOk(reply) == [kind |-> "object", reply |-> reply, err |-> NoGErr]
GNull == [kind |-> "null", reply |-> NoReply, err |-> NoGErr]
GInvalid == [kind |-> "invalid", reply |-> NoReply, err |-> NoGErr]
GThrow(err) == [kind |-> "error", reply |-> NoReply, err |-> err]

\* ------------------------------------------------------------ HTTP requests
NoRes ==
    [sent |-> 0, status |-> 0, error |-> "", details |-> <<>>,
     body |-> NoReply, audio |-> "none", audioOf |-> 0, ttsError |-> "",
     userText |-> <<>>, fields |-> {}]

NoHttp ==
    [kind |-> "none", pc |-> "idle", sessionId |-> "default",
     userText |-> <<>>, history |-> 0, candidate |-> 0, chat |-> "",
     aiResponse |-> NoReply, speech |-> 0, res |-> NoRes,
     respondCalls |-> 0, ttsCalls |-> 0, quotaSignal |-> FALSE,
     transcribed |-> FALSE, failures |-> 0, synth |-> "",
     tempFile |-> 0, sentTo |-> 0, wrote |-> FALSE,
     upload |-> "", tempInput |-> FALSE, transcode |-> "", sttCalls |-> 0,
     chatHistory |-> <<>>, shots |-> 0, files |-> {}, stages |-> <<>>,
     loaded |-> 0]

appVars == <<ffmpegPath, chatSessions, heap, activeModelId, model, http,
             completions, clears>>

\* the clock and the temp files
fsVars == <<now, disk>>

\* the event broadcaster
logVars == <<logStreams, client, emitted>>

vars == <<mgrVars, appVars, fsVars, logVars>>

\* The rest of the program's state as one value.
App ==
    [sessions |-> chatSessions, heap |-> heap, active |-> activeModelId,
     model |-> model, http |-> http, completions |-> completions]

SetApp(a) ==
    /\ chatSessions' = a.sessions
    /\ heap' = a.heap
    /\ activeModelId' = a.active
    /\ model' = a.model
    /\ http' = a.http
    /\ completions' = a.completions

\* a handler's effect: the app state and the manager state after it
Both(a, m) == [a |-> a, m |-> m]

\* The arrays something still refers to: the map's values and the `history`
\* of the calls that are awaiting the model.
LiveArrs(a) ==
    {a.sessions[s] : s \in Sessions}
        \cup {a.http[r].history : r \in {x \in HttpIds : a.http[x].pc = "gemini"}}

\* the array a `[]` expression yields: one nothing refers to
NextArr(a) == Min(ArrIds \ LiveArrs(a))

\* res.status(code).json({error, details}).  The handler ends with it, and
\* its locals (history, chat, the awaited request) are dropped.
SendError(a, r, code, error, details) ==
    [a EXCEPT !.http[r].pc = "done",
              !.http[r].history = 0, !.http[r].chat = "", !.http[r].speech = 0,
              !.http[r].res = [@ EXCEPT !.sent = @ + 1, !.status = code,
                                        !.error = error, !.details = details]]

\* The keys of the object given to res.json besides those of aiResponse:
\* /talk adds userText; /chat and /tts add piperSpeakerId.
ReplyFields(kind, ttsError) ==
    {"audio", "piperVoice", "piperStyle"}
        \cup (IF kind = "talk" THEN {"userText"} ELSE {"piperSpeakerId"})
        \cup (IF ttsError # "" THEN {"ttsError"} ELSE {})

\* res.json({userText?, ...aiResponse, audio, ..., ttsError?})
SendReply(a, r, audio, ttsError) ==
    [a EXCEPT !.http[r].pc = "done",
              !.http[r].history = 0, !.http[r].chat = "", !.http[r].speech = 0,
              !.http[r].res =
                  [@ EXCEPT !.sent = @ + 1, !.status = 200,
                            !.body = a.http[r].aiResponse,
                            !.audio = audio, !.ttsError = ttsError,
                            !.fields = ReplyFields(a.http[r].kind, ttsError),
                            !.userText = IF a.http[r].kind = "talk"
                                         THEN a.http[r].userText ELSE <<>>]]

\* logEvent(trace, stage, ...) and logError(trace, stage, ...) in the handler
\* of request r: the stages it has logged, in order
Stage(a, r, stage) == [a EXCEPT !.http[r].stages = Append(@, stage)]

\* the first event of /chat, the event after processWithGemini returned, and
\* the last event of a request that is answered with audio
ChatReceived == "chat-received"
ChatGeminiDone == "chat-gemini-done"
Complete(kind) == IF kind = "chat" THEN "chat-complete" ELSE "voice-complete"

\* the catch block of the handler
HandlerCatch(a, r, details) ==
    SendError(Stage(a, r, IF a.http[r].kind = "chat" THEN "chat-error"
                          ELSE "voice-error"),
              r, 500,
              IF a.http[r].kind = "chat" THEN "Processing failed"
              ELSE "Voice processing failed", details)

\* textToSpeech returned: the completion event, then res.json with the audio
ReplyWithAudio(a, r) ==
    SendReply(Stage(a, r, Complete(a.http[r].kind)), r, "data", "")

\* textToSpeech threw: logError 'tts-failed', then res.json without audio
ReplyWithoutAudio(a, r, ttsError) ==
    SendReply(Stage(a, r, "tts-failed"), r, "null", ttsError)

SYSTEM_INSTRUCTION == <<"You are Ziva">>
Acknowledgment == <<"Got it! I'll keep things natural and conversational.">>

\* [system instruction, acknowledgment, ...history]: a copy of the turns that
\* the array h holds now
ChatHistory(a, h) ==
    <<Turn("user", SYSTEM_INSTRUCTION), Turn("model", Acknowledgment)>>
        \o a.heap[h]

\* mutant: the switch sets activeModelId and leaves the model object
TryCandidate_StaleModel(a, r, c) ==
    LET a1 == IF MODEL_CANDIDATES[c] # a.active
              THEN [a EXCEPT !.active = MODEL_CANDIDATES[c]]
              ELSE a
    IN [a1 EXCEPT !.http[r].pc = "gemini",
                  !.http[r].candidate = c,
                  !.http[r].chatHistory = ChatHistory(a1, a1.http[r].history),
                  !.http[r].chat = a1.model]

\* one turn of the candidate loop up to `await chat.sendMessage`
TryCandidate(a, r, c) ==
    LET a1 == IF MODEL_CANDIDATES[c] # a.active
              THEN [a EXCEPT !.active = MODEL_CANDIDATES[c],
                             !.model = getModel(MODEL_CANDIDATES[c])]
              ELSE a
    IN [a1 EXCEPT !.http[r].pc = "gemini",
                  !.http[r].candidate = c,
                  !.http[r].chatHistory = ChatHistory(a1, a1.http[r].history),
                  !.http[r].chat = a1.model]

\* mutant: the user turn is stored before the model is asked
RespondStart_PushEarly(a, r, userMessage) ==
    LET s == a.http[r].sessionId
        a1 == IF a.sessions[s] = 0
              THEN [a EXCEPT !.sessions[s] = NextArr(a),
                             !.heap[NextArr(a)] = <<>>]
              ELSE a
        a2 == [a1 EXCEPT !.http[r].history = a1.sessions[s],
                         !.http[r].userText = userMessage,
                         !.http[r].respondCalls = @ + 1,
                         !.heap[a1.sessions[s]] =
                            Append(@, Turn("user", userMessage))]
    IN TryCandidate(a2, r, 1)

\* processWithGemini(userMessage, sessionId) up to its first await.
\* loaded: how many /clear-history requests had been answered when the call
\* read the session's array from the map.
RespondStart(a, r, userMessage) ==
    LET s == a.http[r].sessionId
        a1 == IF a.sessions[s] = 0
              THEN [a EXCEPT !.sessions[s] = NextArr(a),
                             !.heap[NextArr(a)] = <<>>]
              ELSE a
        a2 == [a1 EXCEPT !.http[r].history = a1.sessions[s],
                         !.http[r].userText = userMessage,
                         !.http[r].respondCalls = @ + 1,
                         !.http[r].loaded = Len(clears)]
    IN TryCandidate(a2, r, 1)

\* `return response` / `return {...exhausted: true}`: the call's locals go
Return(a, r, reply) ==
    [a EXCEPT !.http[r].pc = "returned", !.http[r].aiResponse = reply,
              !.http[r].history = 0, !.http[r].chatHistory = <<>>,
              !.http[r].chat = ""]

\* mutant: an empty reply is returned where the source throws
Throw_AsReturn(a, r) ==
    [a EXCEPT !.http[r].pc = "returned", !.http[r].history = 0,
              !.http[r].chatHistory = <<>>, !.http[r].chat = ""]

\* `throw new Error('All Gemini models failed. ...')`
Throw(a, r) ==
    [a EXCEPT !.http[r].pc = "threw", !.http[r].history = 0,
              !.http[r].chatHistory = <<>>, !.http[r].chat = ""]

\* mutant: only a 404 or a 400 goes on to the next candidate
CatchGemini_NotFoundOnly(a, r, err) ==
    LET c == a.http[r].candidate
        a1 == [a EXCEPT !.http[r].quotaSignal = @ \/ QuotaSignal(err),
                        !.http[r].failures =
                            IF QuotaSignal(err) THEN @ ELSE @ + 1]
    IN IF IsQuotaError(err) THEN Return(a1, r, QuotaFallback)
       ELSE IF c < Len(MODEL_CANDIDATES) /\ err.status \in {404, 400}
       THEN TryCandidate(a1, r, c + 1)
       ELSE Throw(a1, r)

\* mutant: the quota fallback is recorded as a turn
CatchGemini_RecordQuota(a, r, err) ==
    LET c == a.http[r].candidate
        a1 == [a EXCEPT !.http[r].quotaSignal = @ \/ QuotaSignal(err),
                        !.http[r].failures =
                            IF QuotaSignal(err) THEN @ ELSE @ + 1]
    IN IF IsQuotaError(err)
       THEN Return([a1 EXCEPT !.heap[a.http[r].history] =
                                HistoryPush(@, a.http[r].userText,
                                            QuotaFallback.text)],
                   r, QuotaFallback)
       ELSE IF c < Len(MODEL_CANDIDATES) THEN TryCandidate(a1, r, c + 1)
       ELSE Throw(a1, r)

\* the catch block of the candidate loop, and the loop's next turn
CatchGemini(a, r, err) ==
    LET c == a.http[r].candidate
        a1 == [a EXCEPT !.http[r].quotaSignal = @ \/ QuotaSignal(err),
                        !.http[r].failures =
                            IF QuotaSignal(err) THEN @ ELSE @ + 1]
    IN IF IsQuotaError(err) THEN Return(a1, r, QuotaFallback)
       ELSE IF c < Len(MODEL_CANDIDATES) THEN TryCandidate(a1, r, c + 1)
       ELSE Throw(a1, r)

\* mutant: the call puts its array back into the map before it pushes
RespondSettled_StoreAgain(a, r, out) ==
    IF out.kind = "object"
    THEN LET h == a.http[r].history
             s == a.http[r].sessionId
             a1 == [a EXCEPT
                      !.sessions[s] = h,
                      !.heap[h] = HistoryPush(@, a.http[r].userText,
                                              out.reply.text),
                      !.completions[s] = Append(@, r)]
         IN Return(a1, r, out.reply)
    ELSE CatchGemini(a, r, IF out.kind = "error" THEN out.err ELSE NoGErr)

\* processWithGemini from the end of `await chat.sendMessage(userMessage)`
\* to its next await, its return or its throw.  JSON.parse throws on text that
\* is no JSON, and `response.text` throws on null, before push is called.
RespondSettled(a, r, out) ==
    IF out.kind = "object"
    THEN LET h == a.http[r].history
             s == a.http[r].sessionId
             a1 == [a EXCEPT
                      !.heap[h] = HistoryPush(@, a.http[r].userText,
                                              out.reply.text),
                      !.completions[s] = Append(@, r)]
         IN Return(a1, r, out.reply)
    ELSE CatchGemini(a, r, IF out.kind = "error" THEN out.err ELSE NoGErr)

\* textToSpeech through the persistent worker, up to `await _speechRequest`
\* tempFile is tts_<Date.now()>.wav; sentTo is the child whose stdin got the
\* payload (0: the write threw).
TextToSpeechStart(a, m, r, o, writeThrows) ==
    LET k == NextReqId(m)
        m1 == speechRequest(ensureSpeechWorker(m, o), k, TtsTimeoutMs, o,
                            writeThrows)
    IN Both([a EXCEPT !.http[r].pc = "tts", !.http[r].speech = k,
                      !.http[r].ttsCalls = @ + 1,
                      !.http[r].tempFile = now,
                      !.http[r].sentTo = IF writeThrows THEN 0 ELSE m1.worker],
            m1)

\* textToSpeech through spawnSync, and the handler's try/catch around it.
\* shot: "ok" (status 0 and the file written), "nofile", "failed"
TextToSpeechOneShot(a, m, r, shot) ==
    LET a1 == [a EXCEPT !.http[r].ttsCalls = @ + 1, !.http[r].synth = shot,
                        !.http[r].shots = @ + 1]
    IN Both(CASE shot = "ok" -> ReplyWithAudio(a1, r)
              [] shot = "nofile" ->
                    ReplyWithoutAudio(a1, r, "TTS audio file not created")
              [] OTHER -> ReplyWithoutAudio(a1, r, "TTS failed"),
            m)

\* mutant: synthesis is attempted for the quota reply too
AfterRespond_AlwaysTts(a, m, r, o, writeThrows, shot) ==
    IF a.http[r].pc = "gemini" THEN Both(a, m)
    ELSE IF a.http[r].pc = "threw"
    THEN Both(HandlerCatch(a, r, <<"All Gemini models failed">>), m)
    ELSE IF useSpeechWorker THEN TextToSpeechStart(a, m, r, o, writeThrows)
    ELSE TextToSpeechOneShot(a, m, r, shot)

\* /chat and /talk after processWithGemini has run to its next await (the
\* handler waits on), thrown (the handler's catch) or returned aiResponse
AfterRespond(a, m, r, o, writeThrows, shot) ==
    IF a.http[r].pc = "gemini" THEN Both(a, m)
    ELSE IF a.http[r].pc = "threw"
    THEN Both(HandlerCatch(a, r, <<"All Gemini models failed">>), m)
    ELSE LET chat == a.http[r].kind = "chat"
             a1 == IF chat THEN Stage(a, r, ChatGeminiDone) ELSE a
             a2 == Stage(a1, r, "tts-requested")
         IN IF a.http[r].aiResponse.exhausted
            THEN Both(SendReply(IF chat THEN a1
                                ELSE Stage(a1, r, Complete("talk")),
                                r, "null", ""), m)
            ELSE IF useSpeechWorker
            THEN TextToSpeechStart(a2, m, r, o, writeThrows)
            ELSE TextToSpeechOneShot(a2, m, r, shot)

\* ------------------------------------------------------------------- /talk
StartsWith(s, p) == Len(s) >= Len(p) /\ SubSeq(s, 1, Len(p)) = p

\* mutant: the sentinel is matched in lower case
Unusable_LowerCase(userText) ==
    \/ userText = <<>>
    \/ userText = <<"could not understand audio">>
    \/ StartsWith(userText, <<"STT error:">>)

\* !userText || userText === 'Could not understand audio'
\*           || userText.startsWith('STT error:')
Unusable(userText) ==
    \/ userText = <<>>
    \/ userText = <<"Could not understand audio">>
    \/ StartsWith(userText, <<"STT error:">>)

\* mutant: the 400 for an unusable transcript is sent without `return`
AfterStt_NoReturn(a, m, r, userText) ==
    LET a1 == Stage([a EXCEPT !.http[r].userText = userText,
                              !.http[r].transcribed = TRUE],
                    r, "stt-complete")
    IN IF Unusable(userText)
       THEN Both(RespondStart(SendError(Stage(a1, r, "stt-rejected"), r, 400,
                                        "Speech-to-text failed",
                                        IF userText # <<>> THEN userText
                                        ELSE <<"Empty transcript">>),
                              r, userText), m)
       ELSE Both(RespondStart(Stage(a1, r, "gemini-request"), r, userText),
                 m)

\* /talk from `logEvent(trace, 'stt-complete', ...)` on
AfterStt(a, m, r, userText) ==
    LET a1 == Stage([a EXCEPT !.http[r].userText = userText,
                              !.http[r].transcribed = TRUE],
                    r, "stt-complete")
    IN IF Unusable(userText)
       THEN Both(SendError(Stage(a1, r, "stt-rejected"), r, 400,
                           "Speech-to-text failed",
                           IF userText # <<>> THEN userText
                           ELSE <<"Empty transcript">>), m)
       ELSE Both(RespondStart(Stage(a1, r, "gemini-request"), r, userText),
                 m)

\* mutant: a request without audio goes on
NoFile_Never(hasFile) == FALSE

\* !req.file
NoFile(hasFile) == ~hasFile

\* mutant: only ff.error is looked at
ConvertFailed_ErrorOnly(ff) == ff \in {"error", "killed"}

\* whether ffmpeg left a file at tempWav
WavWritten(ff) == ff \in {"ok", "killed", "broken"}

\* `finally { try { fs.unlinkSync(tempWav) } catch { } }`
UnlinkWav(a, r) == [a EXCEPT !.http[r].files = @ \ {"wav"}]

\* ff.error || ff.status !== 0 || !fs.existsSync(tempWav)
ConvertFailed(ff) == ff # "ok"

\* spawnSync(PYTHON_BIN, ['speech.py', ...]) was called for request r
OneShot(a, r) == [a EXCEPT !.http[r].shots = @ + 1]

\* /talk up to `await _speechRequest` (or to its end).  ff: what spawnSync of
\* ffmpeg gave; py: what the one-shot `speech.py stt` gave.
\* upload: whether multer found the audio; tempInput: the upload was written
\* to the disk; transcode: how ffmpeg ended; sttCalls: transcriptions begun;
\* files: which of the request's temp files are on the disk (tempInput is
\* written and, after ffmpeg, unlinked within the step); stages: the events
\* the handler has logged.
TalkStart(a0, m, r, hasFile, ff, o, writeThrows, py) ==
    LET a1 == [a0 EXCEPT !.http[r].upload = IF hasFile THEN "file" ELSE "none",
                         !.http[r].stages =
                            IF hasFile THEN <<"audio-received">> ELSE <<>>]
        a2 == [a1 EXCEPT !.http[r].tempInput = TRUE, !.http[r].transcode = ff,
                         !.http[r].files =
                            IF WavWritten(ff) THEN {"wav"} ELSE {},
                         !.http[r].stages = Append(@, "stt-convert-start")]
        a == [a2 EXCEPT !.http[r].sttCalls = @ + 1,
                        !.http[r].stages =
                            @ \o <<"stt-convert-complete", "stt-start">>]
    IN IF NoFile(hasFile)
       THEN Both(SendError(a1, r, 400, "No audio file provided", <<>>), m)
       ELSE IF ~ffmpegPath
       THEN Both(SendError(a1, r, 500, "FFmpeg not available", <<>>), m)
       ELSE IF ConvertFailed(ff)
       THEN Both(HandlerCatch(a2, r, <<"Audio convert failed">>), m)
       ELSE IF useSpeechWorker
       THEN LET k == NextReqId(m)
            IN Both([a EXCEPT !.http[r].pc = "stt", !.http[r].speech = k],
                    speechRequest(ensureSpeechWorker(m, o), k, SttTimeoutMs, o,
                                  writeThrows))
       ELSE IF ~py.ok
       THEN Both(HandlerCatch(UnlinkWav(OneShot(a, r), r), r,
                              <<"STT failed">>), m)
       ELSE AfterStt(UnlinkWav(OneShot(a, r), r), m, r, Trim(py.text))

\* the continuation of `await _speechRequest({cmd: 'stt'})`
OnSttSettled(a, m, r) ==
    LET p == m.promise[a.http[r].speech]
    IN IF p.state = "rejected"
       THEN Both(HandlerCatch(UnlinkWav(a, r), r, <<p.err.tag>>), m)
       ELSE AfterStt(UnlinkWav(a, r), m, r, Trim(p.msg.text))

\* How the synthesis of request r ended: "ok", "nofile", or what rejected
\* the speech request.
Synth(a, r, how) == [a EXCEPT !.http[r].synth = how]

\* mutant: a rejected synthesis goes to the handler's outer catch
OnTtsSettled_Fatal(a, m, r, fileExists) ==
    LET p == m.promise[a.http[r].speech]
    IN IF p.state = "rejected"
       THEN Both(HandlerCatch(Synth(a, r, p.err.tag), r, <<p.err.tag>>), m)
       ELSE IF ~fileExists
       THEN Both(ReplyWithoutAudio(Synth(a, r, "nofile"), r,
                                   "TTS audio file not created"), m)
       ELSE Both(ReplyWithAudio(Synth(a, r, "ok"), r), m)

\* the continuation of `await _speechRequest({cmd: 'tts'})` in textToSpeech,
\* and the handler's try/catch around it
OnTtsSettled(a, m, r, fileExists) ==
    LET p == m.promise[a.http[r].speech]
    IN IF p.state = "rejected"
       THEN Both(ReplyWithoutAudio(Synth(a, r, p.err.tag), r, p.err.tag), m)
       ELSE IF ~fileExists
       THEN Both(ReplyWithoutAudio(Synth(a, r, "nofile"), r,
                                   "TTS audio file not created"), m)
       ELSE Both(ReplyWithAudio(Synth(a, r, "ok"), r), m)

\* ---------------------------------------------------------- event broadcaster
\* An event: the session it is about and its place among the events emitted.
Event(sid, n) == [sessionId |-> sid, n |-> n]

\* What is written to a subscriber's response: a comment line, the line
\* `event: log`, or the line `data: <JSON of the event>`.
Comment(text) == [k |-> "comment", text |-> text, evt |-> Event("", 0)]
EventLine == [k |-> "event", text |-> "log", evt |-> Event("", 0)]
DataLine(evt) == [k |-> "data", text |-> "", evt |-> evt]

\* A client object.  sessionId "" is null (no filter); joined and left are
\* the numbers of events emitted before it was added and removed.
NoClient == [st |-> "none", sessionId |-> "", res |-> <<>>, joined |-> 0,
             left |-> 0, pings |-> 0]

\* mutant: the session filter is not applied
Skips_Never(c, evt) == FALSE

\* the two `continue` conditions of _emitToBrowsers; writableEnded is read
\* from the client object, which has no such property
Skips(c, evt) ==
    c.sessionId # "" /\ evt.sessionId # "" /\ c.sessionId # evt.sessionId

\* _emitToBrowsers(evt): the client objects after it
emitToBrowsers(streams, cl, evt) ==
    [c \in SubIds |->
        IF c \in streams /\ ~Skips(cl[c], evt)
        THEN [cl[c] EXCEPT !.res = @ \o <<EventLine, DataLine(evt)>>]
        ELSE cl[c]]

\* --------------------------------------------------------------- POST /tts
\* an effect on the app state, the manager state and the disk
Three(a, m, d) == [a |-> a, m |-> m, d |-> d]

\* the catch block of POST /tts
SynthCatch(a, r, how) ==
    SendError(Synth(a, r, how), r, 500, "TTS failed", <<how>>)

\* res.json({audio: audioUrl, ...}); the audio is what readFileSync gave
SynthReply(a, r, content) ==
    [SendReply(Synth(a, r, "ok"), r, "data", "")
        EXCEPT !.http[r].res.audioOf = content]

\* POST /tts from the end of `await _speechRequest` in textToSpeech:
\* existsSync, readFileSync, unlinkSync, and the handler's response
OnSynthSettled(a, m, r, d) ==
    LET p == m.promise[a.http[r].speech]
        f == a.http[r].tempFile
    IN IF p.state = "rejected" THEN Three(SynthCatch(a, r, p.err.tag), m, d)
       ELSE IF d[f] = 0 THEN Three(SynthCatch(a, r, "nofile"), m, d)
       ELSE Three(SynthReply(a, r, d[f]), m, [d EXCEPT ![f] = 0])

\* POST /tts with the worker disabled: spawnSync of `speech.py tts` writes
\* the file (shot = "ok") or not, and textToSpeech goes on at once
SynthOneShot(a, m, r, shot, d) ==
    LET a1 == [a EXCEPT !.http[r].ttsCalls = @ + 1, !.http[r].tempFile = now,
                        !.http[r].shots = @ + 1]
    IN CASE shot = "ok" -> Three(SynthReply(a1, r, r), m, [d EXCEPT ![now] = 0])
         [] shot = "nofile" /\ d[now] # 0 ->
                Three(SynthReply(a1, r, d[now]), m, [d EXCEPT ![now] = 0])
         [] OTHER -> Three(SynthCatch(a1, r, shot), m, d)

\* POST /tts up to `await _speechRequest` (or to its end)
SynthStart(a, m, r, o, writeThrows, shot, d) ==
    IF useSpeechWorker
    THEN LET b == TextToSpeechStart(a, m, r, o, writeThrows)
         IN Three(b.a, b.m, d)
    ELSE SynthOneShot(a, m, r, shot, d)

\* ------------------------------------------------------------------ inputs
SessionInputs == {"", "s1"}
\* the message of the r-th request: each request says something else
UserMessage(r) == <<"message", r>>
ReplyTexts == {<<"hi">>}
SpawnOutcomes == {"running", "doomed"}
\* spawnSync of ffmpeg: it could not run, exited non-zero, or left no file;
\* or it was killed at its timeout ("killed": ff.error is set) or exited
\* non-zero ("broken") after it had begun to write tempWav
FfOutcomes == {"ok", "error", "nonzero", "nofile", "killed", "broken"}
ShotOutcomes == {"ok", "nofile", "failed"}

Transcripts ==
    {<<>>, <<WS>>, <<"hello">>, <<WS, "Could not understand audio", WS>>,
     <<"Could not understand audio">>, <<"could not understand audio">>,
     <<"STT error:", "no model">>, <<"hello", "STT error:">>}

PyOutcomes ==
    {[ok |-> FALSE, text |-> <<>>]} \cup {[ok |-> TRUE, text |-> t] : t \in Transcripts}

\* The errors of the model call.  The SDK's message of an HTTP error holds
\* the status text, so a 429 comes with "Too Many Requests".
GeminiErrors ==
    {GErr(429, TRUE, TRUE, FALSE), GErr(429, TRUE, FALSE, FALSE),
     GErr(403, FALSE, TRUE, FALSE), GErr(404, FALSE, FALSE, FALSE),
     GErr(400, FALSE, FALSE, FALSE), GErr(500, FALSE, FALSE, FALSE),
     GErr(0, FALSE, FALSE, FALSE)}

GeminiOutcomes ==
    {GOk(Reply(t, fe, an, FALSE)) :
        t \in ReplyTexts,
        fe \in {"smile", "wink"}, an \in {"Talking", "Moonwalk"}}
    \cup {GNull, GInvalid}
    \cup {GThrow(e) : e \in GeminiErrors}

\* What the worker may print, for a manager driven directly.  Id 0 is a
\* message without id; id MaxClient + 1 is never requested.
\* The worker answers request i with a payload, or an error text, of its own.
Payload(i) == <<"p", i>>
Boom(i) == <<"boom", i>>
WorkerOk == {Response(i, TRUE, Payload(i), <<>>) : i \in 0..MaxClient + 1}
WorkerFail ==
    {Response(i, FALSE, <<>>, <<>>) : i \in 0..MaxClient + 1}
        \cup {Response(i, FALSE, <<>>, Boom(i)) : i \in 0..MaxClient + 1}
WorkerMessages == WorkerOk \cup WorkerFail

\* The chunks stdout may deliver: a whole line, the two parts of a line, two
\* lines at once, a line with blanks around it, lines that are no message,
\* and such a line with the line of a message after it.
WorkerChunks ==
    {LineOf(w) : w \in WorkerMessages}
    \cup {<<H1(w)>> : w \in WorkerOk}
    \cup {<<H2(w), NL>> : w \in WorkerOk}
    \cup {LineOf(w) \o LineOf(v) :
            w \in {x \in WorkerOk : x.id = 1}, v \in {x \in WorkerMessages : x.id = 2}}
    \cup {<<SP>> \o Encode(w) \o <<SP, NL>> : w \in {x \in WorkerOk : x.id = 1}}
    \cup {<<NL>>, <<SP, NL>>, <<Junk, NL>>, <<Junk>>}
    \cup {b \o LineOf(w) :
            b \in {<<NL>>, <<Junk, NL>>, LineOf(Response(0, TRUE, <<>>, <<>>))},
            w \in {x \in WorkerOk : x.id = 1}}

\* A worker whose payloads are not all ASCII: the line of such a response,
\* whole or cut between the two bytes of a character.
Accent(i) == <<"cafe with an acute accent", i>>
WorkerAccented == {Response(i, TRUE, Accent(i), <<>>) : i \in 1..2}
FramingChunks ==
    WorkerChunks
    \cup {RawLineOf(w) : w \in WorkerAccented}
    \cup {<<L(w)>> : w \in WorkerAccented}
    \cup {<<T(w), NL>> : w \in WorkerAccented}

\* what the worker prints for the requests of /talk and /chat: whole lines
\* (an stt response carries the transcript, the others no text)
SttIds == {http[r].speech : r \in {x \in HttpIds : http[x].pc = "stt"}}
AppChunks(m) ==
    {LineOf(Response(i, TRUE, t, <<>>)) : i \in m.pending \cap SttIds, t \in Transcripts}
    \cup {LineOf(Response(i, TRUE, <<>>, <<>>)) : i \in m.pending \ SttIds}
    \cup {LineOf(Response(i, FALSE, <<>>, Boom(i))) : i \in m.pending}

\* ------------------------------------------------------------------ actions
InitMgr(m) ==
    /\ speechWorker = m.worker
    /\ proc = m.proc
    /\ speechWorkerStdoutBuf = m.buf
    /\ speechPending = m.pending
    /\ promise = m.promise
    /\ timer = m.timer
    /\ microtasks = m.micro

\* The state once server.js has been loaded: warmupSpeechModels() has run.
Init ==
    /\ useSpeechWorker \in BOOLEAN
    /\ ffmpegPath \in BOOLEAN
    /\ \E o \in SpawnOutcomes, wt \in BOOLEAN :
            InitMgr(warmupSpeechModels(EmptyMgr, o, wt))
    /\ chatSessions = [s \in Sessions |-> 0]
    /\ heap = [x \in ArrIds |-> <<>>]
    /\ activeModelId = MODEL_CANDIDATES[1]
    /\ model = getModel(MODEL_CANDIDATES[1])
    /\ http = [r \in HttpIds |-> NoHttp]
    /\ completions = [s \in Sessions |-> <<>>]
    /\ clears = <<>>
    /\ now = 1
    /\ disk = [f \in Clock |-> 0]
    /\ logStreams = {}
    /\ client = [c \in SubIds |-> NoClient]
    /\ emitted = <<>>

Idle == microtasks = <<>>

\* the caps on what one behaviour allocates
CanSpawn(m) == WouldSpawn(m) => NextPid(m) <= MaxSpawn
CanRequest(m) == useSpeechWorker => (NextReqId(m) <= MaxReq /\ CanSpawn(m))
CanAlloc(a) == ArrIds \ LiveArrs(a) # {}

NextHttp == Cardinality({r \in HttpIds : http[r].kind # "none"}) + 1

\* the cap on the /chat and /talk requests of one behaviour
CanServe ==
    /\ NextHttp <= MaxCalls
    /\ Cardinality({r \in HttpIds : http[r].kind \in {"chat", "talk"}}) < MaxHttp

Apply(b) == SetApp(b.a) /\ SetMgr(b.m)

\* a direct call of _ensureSpeechWorker(trace)
ClientEnsure(o) ==
    /\ Idle
    /\ CanSpawn(Mgr)
    /\ SetMgr(ensureSpeechWorker(Mgr, o))
    /\ UNCHANGED <<useSpeechWorker, appVars, fsVars, logVars>>

\* a direct call of _speechRequest
ClientRequest(ms, o, writeThrows) ==
    /\ Idle
    /\ NextReqId(Mgr) <= MaxClient
    /\ CanSpawn(Mgr)
    /\ SetMgr(speechRequest(Mgr, NextReqId(Mgr), ms, o, writeThrows))
    /\ UNCHANGED <<useSpeechWorker, appVars, fsVars, logVars>>

\* the timer of request k fires
TimeoutFires(k) ==
    /\ Idle
    /\ timer[k].st = "armed"
    /\ SetMgr(onTimeout(Mgr, k))
    /\ UNCHANGED <<useSpeechWorker, appVars, fsVars, logVars>>

\* child p emits 'error': the spawn failed
WorkerError(p) ==
    /\ Idle
    /\ proc[p] = "doomed"
    /\ SetMgr(onWorkerError(Mgr, p))
    /\ UNCHANGED <<useSpeechWorker, appVars, fsVars, logVars>>

\* child p emits 'exit' (after 'error' it may or may not)
WorkerExit(p) ==
    /\ Idle
    /\ proc[p] \in {"running", "failed"}
    /\ SetMgr(onWorkerExit(Mgr, p))
    /\ UNCHANGED <<useSpeechWorker, appVars, fsVars, logVars>>

\* child p's stdout emits 'data'
StdoutData(p, chunk) ==
    /\ Idle
    /\ proc[p] = "running"
    /\ LET m == onStdoutData(Mgr, chunk)
       IN Len(m.buf) <= MaxBuf /\ SetMgr(m)
    /\ UNCHANGED <<useSpeechWorker, appVars, fsVars, logVars>>

\* the request the reaction of promise k resumes (0: a caller that only
\* observes the outcome, as warmup's .catch(() => {}))
Awaiting(k) ==
    IF \E r \in HttpIds : http[r].pc \in {"stt", "tts"} /\ http[r].speech = k
    THEN CHOOSE r \in HttpIds : http[r].pc \in {"stt", "tts"} /\ http[r].speech = k
    ELSE 0

\* the oldest promise reaction runs
\* For /chat and /talk the disk is not followed: whether the file is there
\* is fileExists.  For POST /tts it is read from the disk.
RunMicrotask(fileExists) ==
    /\ microtasks # <<>>
    /\ LET k == Head(microtasks)
           r == Awaiting(k)
           m == [Mgr EXCEPT !.micro = Tail(@)]
       IN IF r = 0 THEN SetMgr(m) /\ UNCHANGED <<appVars, disk>>
          ELSE IF http[r].kind = "synth"
          THEN /\ fileExists = (disk[http[r].tempFile] # 0)
               /\ Apply(OnSynthSettled(App, m, r, disk))
               /\ disk' = OnSynthSettled(App, m, r, disk).d
               /\ UNCHANGED <<ffmpegPath, clears>>
          ELSE /\ http[r].pc = "stt" => CanAlloc(App)
               /\ Apply(IF http[r].pc = "stt" THEN OnSttSettled(App, m, r)
                        ELSE OnTtsSettled(App, m, r, fileExists))
               /\ UNCHANGED <<ffmpegPath, clears, disk>>
    /\ UNCHANGED <<useSpeechWorker, now, logVars>>

\* processWithGemini is called: a caller that does nothing else
RespondCall(sid) ==
    /\ Idle
    /\ NextHttp <= MaxCalls
    /\ CanAlloc(App)
    /\ LET r == NextHttp
           a == [App EXCEPT !.http[r].kind = "respond",
                            !.http[r].sessionId = SessionOf(sid)]
       IN SetApp(RespondStart(a, r, UserMessage(r)))
    /\ UNCHANGED <<mgrVars, ffmpegPath, clears, fsVars, logVars>>

\* the model call of a direct call of processWithGemini ends
RespondReturn(r, out) ==
    /\ Idle
    /\ http[r].pc = "gemini"
    /\ http[r].kind = "respond"
    /\ SetApp(RespondSettled(App, r, out))
    /\ UNCHANGED <<mgrVars, ffmpegPath, clears, fsVars, logVars>>

\* POST /chat arrives
PostChat(sid) ==
    /\ Idle
    /\ NextHttp <= MaxCalls
    /\ CanAlloc(App)
    /\ LET r == NextHttp
           a == [App EXCEPT !.http[r].kind = "chat",
                            !.http[r].sessionId = SessionOf(sid)]
       IN SetApp(RespondStart(Stage(a, r, ChatReceived), r, UserMessage(r)))
    /\ UNCHANGED <<mgrVars, ffmpegPath, clears, fsVars, logVars>>

\* POST /chat arrives, within the bound on the requests of a behaviour
ChatRequest(sid) == CanServe /\ PostChat(sid)

\* POST /talk arrives
PostTalk(sid, hasFile, ff, o, writeThrows, py) ==
    /\ Idle
    /\ NextHttp <= MaxCalls
    /\ CanAlloc(App)
    /\ CanRequest(Mgr)
    /\ LET r == NextHttp
           a == [App EXCEPT !.http[r].kind = "talk",
                            !.http[r].sessionId = SessionOf(sid)]
       IN Apply(TalkStart(a, Mgr, r, hasFile, ff, o, writeThrows, py))
    /\ UNCHANGED <<useSpeechWorker, ffmpegPath, clears, fsVars, logVars>>

\* POST /talk arrives, within the bound on the requests of a behaviour
TalkRequest(sid, hasFile, ff, o, writeThrows, py) ==
    CanServe /\ PostTalk(sid, hasFile, ff, o, writeThrows, py)

\* the model call of request r ends
GeminiReturn(r, out, o, writeThrows, shot) ==
    /\ Idle
    /\ http[r].pc = "gemini"
    /\ http[r].kind \in {"chat", "talk"}
    /\ CanRequest(Mgr)
    /\ Apply(AfterRespond(RespondSettled(App, r, out), Mgr, r, o, writeThrows,
                          shot))
    /\ UNCHANGED <<useSpeechWorker, ffmpegPath, clears, fsVars, logVars>>

\* mutant: every session is deleted
Delete_All(sessions, id) == [s \in Sessions |-> 0]

\* chatSessions.delete(id)
Delete(sessions, id) == [sessions EXCEPT ![id] = 0]

\* What POST /clear-history answered: the request had a body or not, the id
\* it cleared ("": none) and the status of the response.
Cleared(body, id, status) == [body |-> body, session |-> id, status |-> status]

\* POST /clear-history.  Without a parsed body req.body is undefined, the
\* destructuring throws, and the catch block answers 500.
ClearHistory(body, sid) ==
    /\ Idle
    /\ Len(clears) < MaxClear
    /\ IF body
       THEN /\ chatSessions' = Delete(chatSessions, SessionOf(sid))
            /\ clears' = Append(clears, Cleared(TRUE, SessionOf(sid), 200))
       ELSE /\ sid = ""
            /\ UNCHANGED chatSessions
            /\ clears' = Append(clears, Cleared(FALSE, "", 500))
    /\ UNCHANGED <<mgrVars, ffmpegPath, heap, activeModelId, model, http,
                   completions, fsVars, logVars>>

\* POST /tts arrives with a text
SynthRequest(o, writeThrows, shot) ==
    /\ Idle
    /\ NextHttp <= MaxCalls
    /\ CanRequest(Mgr)
    /\ LET r == NextHttp
           a == [App EXCEPT !.http[r].kind = "synth"]
           b == SynthStart(a, Mgr, r, o, writeThrows, shot, disk)
       IN Apply(b) /\ disk' = b.d
    /\ UNCHANGED <<useSpeechWorker, ffmpegPath, clears, now, logVars>>

\* a millisecond passes
Tick ==
    /\ Idle
    /\ now < MaxNow
    /\ now' = now + 1
    /\ UNCHANGED <<mgrVars, appVars, disk, logVars>>

\* The worker writes the output file of the tts request of r.  The worker is
\* another process: it writes when it gets to the request, whether the
\* server still waits for it or not.
WorkerWrites(r) ==
    /\ http[r].tempFile # 0
    /\ http[r].sentTo # 0
    /\ proc[http[r].sentTo] = "running"
    /\ ~http[r].wrote
    /\ http' = [http EXCEPT ![r].wrote = TRUE]
    /\ disk' = [disk EXCEPT ![http[r].tempFile] = r]
    /\ UNCHANGED <<mgrVars, ffmpegPath, chatSessions, heap, activeModelId,
                   model, completions, clears, now, logVars>>

NextSub == Cardinality({c \in SubIds : client[c].st # "none"}) + 1

\* GET /logs/stream?sessionId=sid arrives ("": no sessionId in the query)
Subscribe(sid) ==
    /\ Idle
    /\ NextSub <= MaxSub
    /\ client' = [client EXCEPT ![NextSub] =
                    [NoClient EXCEPT !.st = "open", !.sessionId = sid,
                                     !.res = <<Comment("connected")>>,
                                     !.joined = Len(emitted)]]
    /\ logStreams' = logStreams \cup {NextSub}
    /\ UNCHANGED <<mgrVars, appVars, fsVars, emitted>>

\* the keepalive interval of subscriber c fires
Ping(c) ==
    /\ Idle
    /\ client[c].st = "open"
    /\ client[c].pings < MaxPing
    /\ client' = [client EXCEPT ![c].res = Append(@, Comment("ping")),
                                ![c].pings = @ + 1]
    /\ UNCHANGED <<mgrVars, appVars, fsVars, logStreams, emitted>>

\* the request of subscriber c emits 'close'
Unsubscribe(c) ==
    /\ Idle
    /\ client[c].st = "open"
    /\ client' = [client EXCEPT ![c].st = "closed", ![c].left = Len(emitted)]
    /\ logStreams' = logStreams \ {c}
    /\ UNCHANGED <<mgrVars, appVars, fsVars, emitted>>

\* logEvent(trace, ...) or logError(trace, ...) is called; sid is
\* trace.sessionId ("": absent, which becomes 'default')
LogEvent(sid) ==
    /\ Idle
    /\ Len(emitted) < MaxEmit
    /\ LET evt == Event(SessionOf(sid), Len(emitted) + 1)
       IN /\ emitted' = Append(emitted, evt)
          /\ client' = emitToBrowsers(logStreams, client, evt)
    /\ UNCHANGED <<mgrVars, appVars, fsVars, logStreams>>

\* the worker processes that run
Alive == {p \in Pids : proc[p] = "running"}

\* the requests that wait for the model
Waiting == {r \in HttpIds : http[r].pc = "gemini"}

ManagerEvents(chunks) ==
    \/ \E k \in ReqIds : TimeoutFires(k)
    \/ \E p \in Pids : WorkerError(p)
    \/ \E p \in Pids : WorkerExit(p)
    \/ \E p \in Alive, chunk \in chunks : StdoutData(p, chunk)
    \/ \E fileExists \in BOOLEAN : RunMicrotask(fileExists)

\* the whole backend
Next ==
    \/ \E sid \in SessionInputs : ChatRequest(sid)
    \/ /\ CanServe
       /\ \E sid \in SessionInputs, hasFile \in BOOLEAN, ff \in FfOutcomes,
             o \in SpawnOutcomes, wt \in BOOLEAN, py \in PyOutcomes :
               TalkRequest(sid, hasFile, ff, o, wt, py)
    \/ \E r \in Waiting, out \in GeminiOutcomes, o \in SpawnOutcomes,
          wt \in BOOLEAN, shot \in ShotOutcomes :
            GeminiReturn(r, out, o, wt, shot)
    \/ \E body \in BOOLEAN, sid \in SessionInputs : ClearHistory(body, sid)
    \/ ManagerEvents(AppChunks(Mgr))

Spec == Init /\ [][Next]_vars

\* the speech worker manager, called directly
NextWorker ==
    \/ \E o \in SpawnOutcomes : ClientEnsure(o)
    \/ \E ms \in {DefaultTimeoutMs, WarmupTimeoutMs}, o \in SpawnOutcomes,
          wt \in BOOLEAN : ClientRequest(ms, o, wt)
    \/ ManagerEvents(WorkerChunks)

\* The manager does not read ffmpegPath.
InitWorker == Init /\ ffmpegPath

SpecWorker == InitWorker /\ [][NextWorker]_vars

\* the conversational responder and the session store, called directly
NextResponder ==
    \/ \E sid \in SessionInputs : RespondCall(sid)
    \/ \E r \in Waiting, out \in GeminiOutcomes : RespondReturn(r, out)
    \/ \E body \in BOOLEAN, sid \in SessionInputs : ClearHistory(body, sid)

\* The responder reads nothing of the speech worker: it is looked at with the
\* worker disabled.
InitResponder == Init /\ ~useSpeechWorker /\ ffmpegPath

SpecResponder == InitResponder /\ [][NextResponder]_vars

\* the speech worker manager when timers fire and promise reactions run
SpecWorkerFair ==
    /\ SpecWorker
    /\ \A k \in ReqIds : WF_vars(TimeoutFires(k))
    /\ WF_vars(\E fileExists \in BOOLEAN : RunMicrotask(fileExists))

\* --------------------------------------------------------------- properties
\* the array chatSessions holds for session s
StoredHistory(s) == IF chatSessions[s] = 0 THEN <<>> ELSE heap[chatSessions[s]]

\* the turns of the calls q, in the order of q
RECURSIVE TurnsOf(_)
TurnsOf(q) ==
    IF q = <<>> THEN <<>>
    ELSE <<Turn("user", http[Head(q)].userText),
           Turn("model", http[Head(q)].aiResponse.text)>> \o TurnsOf(Tail(q))

NeverCleared(s) == \A i \in 1..Len(clears) : clears[i].session # s

\* C1: for a session that was not cleared, the stored history is exactly the
\* user turn and the model turn of each call of processWithGemini that has
\* completed successfully, in the order the calls completed: 2N turns after
\* N such calls.
C1_HistoryInCompletionOrder ==
    \A s \in Sessions :
        NeverCleared(s) =>
            /\ Len(StoredHistory(s)) = 2 * Len(completions[s])
            /\ StoredHistory(s) = TurnsOf(completions[s])

\* two calls of one session have completed in the reverse of the order they
\* were made in
C1_Witness ==
    \E s \in Sessions :
        /\ NeverCleared(s)
        /\ completions[s] = <<2, 1>>
        /\ Len(StoredHistory(s)) = 4

\* the step in which the 'exit' handler of child p runs
ExitStep(p) == proc[p] # "exited" /\ proc'[p] = "exited"

\* the step in which the 'error' handler of child p runs
ErrorStep(p) == proc[p] = "doomed" /\ proc'[p] = "failed"

\* request k, pending before the step, is rejected with err by the step
RejectedBy(k, err) ==
    /\ promise[k].state = "pending"
    /\ promise'[k].state = "rejected"
    /\ promise'[k].err = err
    /\ timer'[k].st # "armed"

\* C2: the step in which the worker exits rejects every request of the
\* pending table with the exit error, empties the table and clears the
\* handle, so that the next _ensureSpeechWorker spawns.
C2_ExitRejectsAll ==
    [][\A p \in Pids :
          ExitStep(p) =>
              /\ \A k \in speechPending : RejectedBy(k, ErrExit)
              /\ speechPending' = {}
              /\ speechWorker' = 0
              /\ WouldSpawn(Mgr)']_vars

\* the first worker has exited with two requests pending, and both are
\* rejected with the exit error
C2_Witness ==
    /\ proc[1] = "exited"
    /\ proc[2] = "unborn"
    /\ speechPending = {}
    /\ speechWorker = 0
    /\ Cardinality({k \in ReqIds : promise[k].state = "rejected"
                                    /\ promise[k].err = ErrExit}) >= 2

\* C3: the step in which the worker emits 'error' rejects every request of
\* the pending table and leaves no live worker, so that the next
\* _ensureSpeechWorker spawns.
C3_ErrorLeavesNoWorker ==
    [][\A p \in Pids :
          ErrorStep(p) =>
              /\ \A k \in speechPending : RejectedBy(k, ErrSpawn)
              /\ speechPending' = {}
              /\ WouldSpawn(Mgr)']_vars

\* C4: once the timer of a request has fired, the request is rejected with
\* the timeout error of its own timeoutMs and its id is not in the pending
\* table; and only a request that no response has settled has its timer fire.
C4_TimeoutRejects ==
    \A k \in ReqIds :
        timer[k].st = "fired" =>
            /\ promise[k].state = "rejected"
            /\ promise[k].err = ErrTimeout(timer[k].ms)
            /\ timer[k].ms \in {DefaultTimeoutMs, WarmupTimeoutMs}
            /\ k \notin speechPending

\* a request timed out while another one is still pending on a live worker
C4_Witness ==
    \E k, j \in ReqIds :
        /\ timer[k].st = "fired"
        /\ promise[k].err = ErrTimeout(DefaultTimeoutMs)
        /\ j \in speechPending
        /\ speechWorker # 0
        /\ proc[speechWorker] = "running"

Settled(k) == promise[k].state \in {"resolved", "rejected"}

\* C5: every request that was issued is eventually resolved or rejected.
C5_EveryRequestSettles ==
    \A k \in 1..MaxClient : (promise[k].state = "pending") ~> Settled(k)

\* three requests were issued; one was answered, one timed out and one was
\* rejected by the worker's exit
C5_Witness ==
    /\ \A k \in 1..MaxClient : Settled(k)
    /\ \E k \in 1..MaxClient : promise[k].state = "resolved"
    /\ \E k \in 1..MaxClient : promise[k].err.tag = "timeout"
    /\ \E k \in 1..MaxClient : promise[k].err.tag = "exit"

\* C6: a request is settled by the response that carries its id and by no
\* other: a resolved request holds the message with its own id and payload,
\* a request the worker failed holds the error text of its own response, and
\* no request is settled twice.
C6_SettledByOwnResponse ==
    \A k \in ReqIds :
        /\ promise[k].state = "resolved" =>
              /\ promise[k].msg.id = k
              /\ promise[k].msg.ok
              /\ promise[k].msg.text = Payload(k)
        /\ (promise[k].state = "rejected" /\ promise[k].err.tag = "worker") =>
              promise[k].err.text \in {Boom(k), <<"speech worker error">>}
        /\ promise[k].calls <= 1

\* responses arrived out of order: 2 and 3 are answered while 1 still waits
C6_Witness ==
    /\ promise[1].state = "pending"
    /\ 1 \in speechPending
    /\ promise[2].state = "resolved"
    /\ promise[3].state = "rejected"
    /\ promise[3].err.tag = "worker"

\* C7: at most one worker process is alive; while one is alive it is the one
\* the manager holds, and _ensureSpeechWorker returns it, spawns nothing and
\* changes nothing.
C7_OneWorker ==
    /\ Cardinality(Alive) <= 1
    /\ \A p \in Alive :
          /\ speechWorker = p
          /\ ~WouldSpawn(Mgr)
          /\ \A o \in SpawnOutcomes :
                /\ ensureSpeechWorker(Mgr, o) = Mgr
                /\ EnsureResult(Mgr, o) = p

\* a second worker is alive after the first one exited
C7_Witness ==
    /\ proc[1] = "exited"
    /\ proc[2] = "running"
    /\ speechWorker = 2

\* C8: a request whose model call gave the quota signal, on either candidate,
\* is answered 200 with the fixed reply (exhausted, "sad", "Idle") and
\* audio null, in the step the signal arrives, and textToSpeech is never
\* called for it.
C8_QuotaFallback ==
    \A r \in HttpIds :
        http[r].quotaSignal =>
            /\ http[r].pc = "done"
            /\ http[r].res.sent = 1
            /\ http[r].res.status = 200
            /\ http[r].res.body.exhausted
            /\ http[r].res.body.facialExpression = "sad"
            /\ http[r].res.body.animation = "Idle"
            /\ http[r].res.audio = "null"
            /\ http[r].ttsCalls = 0

\* a /talk request got the quota signal from the second candidate
C8_Witness ==
    \E r \in HttpIds :
        /\ http[r].kind = "talk"
        /\ http[r].quotaSignal
        /\ http[r].candidate = 2
        /\ http[r].res.body = QuotaFallback

\* the transcripts the voice path must not forward
UnusableTranscript(t) ==
    \/ t = <<>>
    \/ t = <<"Could not understand audio">>
    \/ (Len(t) >= 1 /\ t[1] = "STT error:")

\* C9: a /talk request whose transcript is empty, is "Could not understand
\* audio" or starts with "STT error:" is answered 400 without a call of
\* processWithGemini, and the step that receives the transcript leaves the
\* session map and every history as they were.
C9_UnusableTranscript ==
    /\ [](\A r \in HttpIds :
            (/\ http[r].kind = "talk"
             /\ http[r].transcribed
             /\ UnusableTranscript(http[r].userText)) =>
                /\ http[r].pc = "done"
                /\ http[r].res.sent = 1
                /\ http[r].res.status = 400
                /\ http[r].respondCalls = 0)
    /\ [][\A r \in HttpIds :
            (/\ ~http[r].transcribed
             /\ http'[r].transcribed
             /\ UnusableTranscript(http'[r].userText)) =>
                UNCHANGED <<chatSessions, heap, completions>>]_vars

\* the worker returned an "STT error:" transcript and the request got a 400
C9_Witness ==
    \E r \in HttpIds :
        /\ http[r].kind = "talk"
        /\ http[r].transcribed
        /\ useSpeechWorker
        /\ http[r].userText = <<"STT error:", "no model">>
        /\ http[r].res.status = 400
        /\ http[r].respondCalls = 0

\* C10: every reply processWithGemini returns has its facialExpression in
\* VALID_EXPRESSIONS and its animation in VALID_ANIMATIONS.
C10_ReplyInVocabulary ==
    \A r \in HttpIds :
        http[r].pc = "returned" =>
            /\ http[r].aiResponse.facialExpression \in VALID_EXPRESSIONS
            /\ http[r].aiResponse.animation \in VALID_ANIMATIONS

\* call r of processWithGemini begins in this step
CallBegins(r) == http[r].respondCalls = 0 /\ http'[r].respondCalls = 1

\* call q has returned a reply of the model
Succeeded(q) == http[q].pc \in {"returned", "done", "tts"} /\ http[q].respondCalls = 1
                    /\ ~http[q].aiResponse.exhausted /\ http[q].aiResponse # NoReply

NoneInFlight == \A q \in HttpIds : http[q].pc # "gemini"

\* C11: when the call before succeeded on a candidate other than the first
\* and no call is in flight, the next call of processWithGemini tries that
\* candidate first.
C11_StickyFallback ==
    [][\A r \in HttpIds \ {1} :
          (/\ CallBegins(r)
           /\ NoneInFlight
           /\ Succeeded(r - 1)
           /\ http[r - 1].candidate > 1) =>
                http'[r].candidate = http[r - 1].candidate]_vars

\* every candidate of call r failed, none with the quota signal
AllCandidatesFailed(r) == http[r].failures = Len(MODEL_CANDIDATES)

\* C12: a /chat or /talk request all of whose candidates failed for a
\* non-quota reason ends with a 500 that carries the aggregate error and no
\* reply, textToSpeech is never called for it, the beginning of the call
\* leaves the turns of every session as they were, and no failure of a
\* candidate changes the session map or a history.
C12_AggregateFailure ==
    /\ [](\A r \in HttpIds :
            AllCandidatesFailed(r) =>
                /\ http[r].pc = "done"
                /\ http[r].res.sent = 1
                /\ http[r].res.status = 500
                /\ http[r].res.details = <<"All Gemini models failed">>
                /\ http[r].res.body = NoReply
                /\ http[r].res.audio = "none"
                /\ http[r].aiResponse = NoReply
                /\ http[r].ttsCalls = 0)
    /\ [][\A r \in HttpIds :
            /\ http'[r].failures > http[r].failures =>
                    UNCHANGED <<chatSessions, heap, completions>>
            /\ CallBegins(r) =>
                    \A s \in Sessions : StoredHistory(s)' = StoredHistory(s)]_vars

\* a /talk request ended with the 500 after both candidates failed
C12_Witness ==
    \E r \in HttpIds :
        /\ http[r].kind = "talk"
        /\ AllCandidatesFailed(r)
        /\ http[r].res.status = 500
        /\ http[r].res.error = "Voice processing failed"

\* the last /clear-history request
LastClear == clears[Len(clears)]

TurnsStored(r) ==
    LET h == StoredHistory(http[r].sessionId)
    IN \E i \in 1..Len(h) - 1 : SubSeq(h, i, i + 1) = TurnsOf(<<r>>)

\* C14: when the model call succeeded and the synthesis failed (the speech
\* request was rejected by the worker, by its timeout, by the worker's exit
\* or error, by the write, or no output file was there), the request is
\* answered 200 with the model's reply, audio null and a ttsError; the step
\* that ends a synthesis changes no history, and unless the session was
\* cleared the turns of the exchange are stored.
C14_SynthesisFailureIsNotFatal ==
    /\ [](\A r \in HttpIds :
            http[r].synth \notin {"", "ok"} =>
                /\ http[r].pc = "done"
                /\ http[r].res.sent = 1
                /\ http[r].res.status = 200
                /\ http[r].res.body = http[r].aiResponse
                /\ http[r].res.body.text \in ReplyTexts
                /\ http[r].res.audio = "null"
                /\ http[r].res.ttsError # ""
                /\ NeverCleared(http[r].sessionId) => TurnsStored(r))
    /\ [][\A r \in HttpIds :
            (http[r].pc = "tts" /\ http'[r].pc = "done") =>
                UNCHANGED <<chatSessions, heap, completions>>]_vars

\* a /talk request whose synthesis timed out was answered with the reply
C14_Witness ==
    \E r \in HttpIds :
        /\ http[r].kind = "talk"
        /\ http[r].synth = "timeout"
        /\ http[r].res.status = 200
        /\ http[r].res.ttsError = "timeout"
        /\ TurnsStored(r)

\* textToSpeech behind POST /tts, with the clock and the disk
NextSynth ==
    \/ \E o \in SpawnOutcomes, wt \in BOOLEAN, shot \in ShotOutcomes :
            SynthRequest(o, wt, shot)
    \/ Tick
    \/ \E r \in HttpIds : WorkerWrites(r)
    \/ ManagerEvents(AppChunks(Mgr))

SpecSynth == InitWorker /\ [][NextSynth]_vars

\* request r chose a temp file that no other request chose
OwnFile(r) == \A q \in HttpIds \ {r} : http[q].tempFile # http[r].tempFile

\* C15: once textToSpeech has finished for a POST /tts request, with audio or
\* with an error, the temp file it chose (and no other request chose) is not
\* on the disk.
C15_TempFileRemoved ==
    \A r \in HttpIds :
        (http[r].kind = "synth" /\ http[r].pc = "done" /\ OwnFile(r)) =>
            disk[http[r].tempFile] = 0

\* C16: two requests whose synthesis is in flight at the same time have
\* different temp files, and the audio a request is answered with is the
\* audio written for it.
C16_TempFilesUnique ==
    /\ \A r, q \in HttpIds :
          (r # q /\ http[r].pc = "tts" /\ http[q].pc = "tts") =>
              http[r].tempFile # http[q].tempFile
    /\ \A r \in HttpIds : http[r].res.audioOf \in {0, r}

\* nothing after the transcoder was invoked for request r
NothingDownstream(r) ==
    /\ http[r].sttCalls = 0
    /\ ~http[r].transcribed
    /\ http[r].respondCalls = 0
    /\ http[r].ttsCalls = 0
    /\ http[r].tempFile = 0

\* C17: a /talk request whose transcoder could not run, exited non-zero or
\* left no output file is answered 500; no transcription, no call of
\* processWithGemini and no synthesis is made for it, and the step leaves
\* the speech worker and the histories as they were.
C17_TranscodeFailureIsFatal ==
    /\ [](\A r \in HttpIds :
            http[r].transcode \in {"error", "nonzero", "nofile"} =>
                /\ http[r].pc = "done"
                /\ http[r].res.sent = 1
                /\ http[r].res.status = 500
                /\ http[r].res.error = "Voice processing failed"
                /\ http[r].res.details = <<"Audio convert failed">>
                /\ NothingDownstream(r))
    /\ [][\A r \in HttpIds :
            (http[r].transcode = "" /\ http'[r].transcode \notin {"", "ok"}) =>
                UNCHANGED <<mgrVars, chatSessions, heap, completions>>]_vars

\* with the worker enabled, ffmpeg left no output file and the request got
\* the 500
C17_Witness ==
    \E r \in HttpIds :
        /\ http[r].kind = "talk"
        /\ http[r].transcode = "nofile"
        /\ useSpeechWorker
        /\ http[r].res.status = 500

\* C18: a /talk request without audio is answered 400; no temp file is
\* written, the transcoder is not run, no transcription, no call of
\* processWithGemini and no synthesis is made for it, and the step leaves
\* the speech worker, the disk and the histories as they were.
C18_NoAudioIsRejected ==
    /\ [](\A r \in HttpIds :
            http[r].upload = "none" =>
                /\ http[r].pc = "done"
                /\ http[r].res.sent = 1
                /\ http[r].res.status = 400
                /\ http[r].res.error = "No audio file provided"
                /\ ~http[r].tempInput
                /\ http[r].transcode = ""
                /\ NothingDownstream(r))
    /\ [][\A r \in HttpIds :
            (http[r].upload = "" /\ http'[r].upload = "none") =>
                UNCHANGED <<mgrVars, fsVars, chatSessions, heap, completions>>]_vars

\* a /talk request without audio got the 400 while the session of the
\* request was never created
C18_Witness ==
    \E r \in HttpIds :
        /\ http[r].kind = "talk"
        /\ http[r].upload = "none"
        /\ http[r].res.status = 400
        /\ chatSessions[http[r].sessionId] = 0
        /\ ffmpegPath

\* the event broadcaster, with logEvent called directly
NextBroadcast ==
    \/ \E sid \in SessionInputs : Subscribe(sid)
    \/ \E c \in SubIds : Ping(c)
    \/ \E c \in SubIds : Unsubscribe(c)
    \/ \E sid \in SessionInputs : LogEvent(sid)

SpecBroadcast == InitResponder /\ [][NextBroadcast]_vars

\* the events written to subscriber c, in the order they were written
Received(c) ==
    LET d == SelectSeq(client[c].res, LAMBDA x : x.k = "data")
    IN [i \in 1..Len(d) |-> d[i].evt]

\* what was written to subscriber c, its keepalive pings left out
Stream(c) == SelectSeq(client[c].res, LAMBDA x : x # Comment("ping"))

\* the events emitted while subscriber c was registered
During(c) ==
    SubSeq(emitted, client[c].joined + 1,
           IF client[c].st = "closed" THEN client[c].left ELSE Len(emitted))

\* the events subscriber c asked for
Wanted(c) ==
    SelectSeq(During(c),
              LAMBDA e : client[c].sessionId = "" \/ e.sessionId = client[c].sessionId)

RECURSIVE Framed(_)
Framed(es) ==
    IF es = <<>> THEN <<>>
    ELSE <<EventLine, DataLine(Head(es))>> \o Framed(Tail(es))

\* C19: every subscriber was written exactly the events emitted while it was
\* registered that its filter asks for (all of them when it gave no session
\* id, those of its session otherwise), each as an `event: log` line and a
\* data line, in the order they were emitted.
C19_FanOut ==
    \A c \in SubIds :
        client[c].st # "none" =>
            /\ Received(c) = Wanted(c)
            /\ Stream(c) = <<Comment("connected")>> \o Framed(Wanted(c))

\* two subscribers at once, one without filter and one of session "s1":
\* the first got three events, the second only the two of its session
C19_Witness ==
    /\ logStreams = {1, 2}
    /\ client[1].sessionId = ""
    /\ client[2].sessionId = "s1"
    /\ Len(Received(1)) = 3
    /\ Len(Received(2)) = 2
    /\ \E i \in 1..Len(emitted) : emitted[i].sessionId = "default"

\* call r gives a history and the user text to the model in this step
Sends(r) ==
    /\ http'[r].pc = "gemini"
    /\ http[r].pc # "gemini" \/ http'[r].candidate # http[r].candidate

\* C20: whenever a history is given to the model, it is the system
\* instruction, the acknowledgment, and then the turns the session stores at
\* that moment, in their order.
C20_SentHistory ==
    [][\A r \in HttpIds, t \in Sessions :
          (Sends(r) /\ http'[r].sessionId = t) =>
              http'[r].chatHistory =
                  <<Turn("user", SYSTEM_INSTRUCTION),
                    Turn("model", Acknowledgment)>> \o StoredHistory(t)']_vars

\* the same at the first candidate of a call, where the array was just read
\* from the store
C20_AtFirstCandidate ==
    [][\A r \in HttpIds, t \in Sessions :
          (Sends(r) /\ http'[r].candidate = 1 /\ http'[r].sessionId = t) =>
              http'[r].chatHistory =
                  <<Turn("user", SYSTEM_INSTRUCTION),
                    Turn("model", Acknowledgment)>> \o StoredHistory(t)']_vars

\* a second call on a session whose first call succeeded has the two turns of
\* the first exchange in the history it sends
C20_SecondChat ==
    /\ http[2].pc = "gemini"
    /\ http[2].sessionId = http[1].sessionId
    /\ Len(http[2].chatHistory) = 4
    /\ SubSeq(http[2].chatHistory, 3, 4) = TurnsOf(<<1>>)

\* the backend with the persistent worker disabled: the three handlers that
\* synthesize or transcribe, and direct calls of the manager
NextDegraded ==
    \/ \E sid \in SessionInputs : ChatRequest(sid)
    \/ /\ CanServe
       /\ \E sid \in SessionInputs, hasFile \in BOOLEAN, ff \in FfOutcomes,
             o \in SpawnOutcomes, wt \in BOOLEAN, py \in PyOutcomes :
               TalkRequest(sid, hasFile, ff, o, wt, py)
    \/ \E r \in Waiting, out \in GeminiOutcomes, o \in SpawnOutcomes,
          wt \in BOOLEAN, shot \in ShotOutcomes :
            GeminiReturn(r, out, o, wt, shot)
    \/ \E o \in SpawnOutcomes, wt \in BOOLEAN, shot \in ShotOutcomes :
            SynthRequest(o, wt, shot)
    \/ \E o \in SpawnOutcomes : ClientEnsure(o)
    \/ \E ms \in {DefaultTimeoutMs}, o \in SpawnOutcomes, wt \in BOOLEAN :
            ClientRequest(ms, o, wt)
    \/ \E fileExists \in BOOLEAN : RunMicrotask(fileExists)
    \/ Tick

InitDegraded == Init /\ ~useSpeechWorker

SpecDegraded == InitDegraded /\ [][NextDegraded]_vars

\* C21: with USE_SPEECH_WORKER off no child is ever spawned as worker, the
\* pending table is empty, no request of a handler issues a speech request
\* (each transcription and each synthesis it began was one spawnSync of
\* speech.py), and every direct _speechRequest is rejected with the
\* disabled/unavailable error, without a timer.
C21_DegradedMode ==
    ~useSpeechWorker =>
        /\ Spawned(Mgr) = {}
        /\ speechWorker = 0
        /\ speechPending = {}
        /\ \A r \in HttpIds :
              /\ http[r].speech = 0
              /\ http[r].pc \notin {"stt", "tts"}
              /\ http[r].shots = http[r].sttCalls + http[r].ttsCalls
        /\ \A k \in ReqIds :
              promise[k].state # "none" =>
                  /\ promise[k].state = "rejected"
                  /\ promise[k].err = ErrDisabled
                  /\ timer[k].st = "none"

\* a /talk request was transcribed and its reply synthesized by two one-shot
\* processes, a POST /tts request was synthesized by one, and a direct
\* request was rejected as disabled
C21_Witness ==
    /\ ~useSpeechWorker
    /\ \E r \in HttpIds :
          /\ http[r].kind = "talk"
          /\ http[r].sttCalls = 1
          /\ http[r].ttsCalls = 1
          /\ http[r].shots = 2
          /\ http[r].res.status = 200
    /\ \E r \in HttpIds : http[r].kind = "synth" /\ http[r].shots = 1
    /\ \E k \in ReqIds : promise[k].err = ErrDisabled

\* the lines of the stream s that have ended, each trimmed
RECURSIVE Lines(_)
Lines(s) ==
    IF IndexOfNL(s) = 0 THEN <<>>
    ELSE <<TrimLine(SubSeq(s, 1, IndexOfNL(s) - 1))>>
            \o Lines(SubSeq(s, IndexOfNL(s) + 1, Len(s)))

\* the worker's stdout can emit 'data' now
CanEmitData == Idle /\ \E p \in Pids : proc[p] = "running"

\* the place of the first line of ls that is the JSON text of a message with
\* id k (0: none)
FirstFor(ls, k) ==
    LET S == {i \in 1..Len(ls) : JSONparse(ls[i]).ok /\ JSONparse(ls[i]).msg.id = k}
    IN IF S = {} THEN 0 ELSE Min(S)

\* C22: whenever a data event completes the line of a response whose id is
\* in the pending table, the handler resolves the request of that id with the
\* whole response if ok is true and rejects it with the response's error
\* text if ok is false (with 'speech worker error' if it has none), and
\* either way the id leaves the table and its timer is cleared.
C22_ResponseSettles ==
    CanEmitData =>
        \A chunk \in WorkerChunks, k \in speechPending :
            LET ls == Lines(speechWorkerStdoutBuf \o toString(chunk))
                m == onStdoutData(Mgr, chunk)
            IN FirstFor(ls, k) # 0 =>
                  LET w == JSONparse(ls[FirstFor(ls, k)]).msg
                  IN /\ w.ok => /\ m.promise[k].state = "resolved"
                                /\ m.promise[k].msg = w
                     /\ ~w.ok => /\ m.promise[k].state = "rejected"
                                 /\ m.promise[k].err.tag = "worker"
                                 /\ m.promise[k].err.text =
                                       IF w.error # <<>> THEN w.error
                                       ELSE <<"speech worker error">>
                     /\ k \notin m.pending
                     /\ timer[k].st = "armed"
                     /\ m.timer[k].st = "cleared"

\* one request was resolved with its payload and another rejected with the
\* worker's error text, and both timers are cleared
C22_Witness ==
    \E j, k \in ReqIds :
        /\ promise[j].state = "resolved"
        /\ promise[j].msg = Response(j, TRUE, Payload(j), <<>>)
        /\ timer[j].st = "cleared"
        /\ promise[k].state = "rejected"
        /\ promise[k].err = ErrWorker(Boom(k))
        /\ timer[k].st = "cleared"
        /\ speechPending \cap {j, k} = {}

\* the model call of call r ends with a quota signal, with a reply, or with
\* any other failure
EndsInQuota(out) == out.kind = "error" /\ QuotaSignal(out.err)
EndsInReply(out) == out.kind = "object"
EndsInFailure(out) == ~EndsInReply(out) /\ ~EndsInQuota(out)

\* C23: a call of processWithGemini begins with the first candidate; when
\* the model call on candidate c ends, the call returns the reply if there
\* is one, returns the quota fallback if the error signals an exhausted
\* quota, and on any other failure goes on with candidate c + 1 (throwing
\* after the last one); each model call is made on the model of its
\* candidate, so the candidates are tried in list order, each at most once.
C23_CandidateOrder ==
    [][\A r \in HttpIds :
          /\ CallBegins(r) =>
                /\ http'[r].candidate = 1
                /\ http'[r].chat = MODEL_CANDIDATES[1]
          /\ \A out \in GeminiOutcomes :
                RespondReturn(r, out) =>
                    LET c == http[r].candidate
                    IN /\ EndsInReply(out) =>
                            /\ http'[r].pc = "returned"
                            /\ http'[r].aiResponse = out.reply
                            /\ http'[r].candidate = c
                       /\ EndsInQuota(out) =>
                            /\ http'[r].pc = "returned"
                            /\ http'[r].aiResponse = QuotaFallback
                            /\ http'[r].candidate = c
                       /\ (EndsInFailure(out) /\ c < Len(MODEL_CANDIDATES)) =>
                            /\ http'[r].pc = "gemini"
                            /\ http'[r].candidate = c + 1
                            /\ http'[r].chat = MODEL_CANDIDATES[c + 1]
                       /\ (EndsInFailure(out) /\ c = Len(MODEL_CANDIDATES)) =>
                            http'[r].pc = "threw"]_vars

\* the first candidate of a call failed without a quota signal and the
\* second gave the reply the call returned
C23_Witness ==
    \E r \in HttpIds :
        /\ http[r].pc = "returned"
        /\ http[r].candidate = 2
        /\ http[r].failures = 1
        /\ ~http[r].aiResponse.exhausted
        /\ http[r].aiResponse.text \in ReplyTexts

\* the text path, the voice path and direct calls of processWithGemini on
\* the session store, with the worker disabled (nothing is spawned or
\* written to a worker, so these two inputs are not varied)
NextPaths ==
    \/ \E sid \in SessionInputs : RespondCall(sid)
    \/ \E r \in Waiting, out \in GeminiOutcomes : RespondReturn(r, out)
    \/ \E sid \in SessionInputs : ChatRequest(sid)
    \/ /\ CanServe
       /\ \E sid \in SessionInputs, hasFile \in BOOLEAN, ff \in FfOutcomes,
             py \in PyOutcomes :
               TalkRequest(sid, hasFile, ff, "running", FALSE, py)
    \/ \E r \in Waiting, out \in GeminiOutcomes, shot \in ShotOutcomes :
            GeminiReturn(r, out, "running", FALSE, shot)
    \/ \E body \in BOOLEAN, sid \in SessionInputs : ClearHistory(body, sid)

SpecPaths == InitResponder /\ [][NextPaths]_vars

\* call r gets the quota fallback in this step
QuotaStep(r) == ~http[r].quotaSignal /\ http'[r].quotaSignal

\* C24: a /chat or /talk request whose respond call returns the quota
\* fallback records nothing: the step in which the call begins and the step
\* in which the fallback is returned leave the session map, every history
\* and the completions as they were, and the request is never among the
\* completions of a session.
C24_QuotaRecordsNothing ==
    /\ [](\A r \in HttpIds, s \in Sessions :
            http[r].quotaSignal =>
                \A i \in 1..Len(completions[s]) : completions[s][i] # r)
    /\ [][\A r \in HttpIds :
            /\ QuotaStep(r) =>
                    /\ http'[r].aiResponse = QuotaFallback
                    /\ UNCHANGED <<chatSessions, heap, completions>>
            /\ CallBegins(r) =>
                    \A s \in Sessions : StoredHistory(s)' = StoredHistory(s)]_vars

\* a /talk request got the quota fallback on a session that holds the two
\* turns of an earlier exchange, and the session still holds just these
C24_Witness ==
    /\ http[1].kind = "respond"
    /\ http[2].kind = "talk"
    /\ http[2].sessionId = http[1].sessionId
    /\ http[2].quotaSignal
    /\ http[2].res.body = QuotaFallback
    /\ StoredHistory(http[2].sessionId) = TurnsOf(<<1>>)
    /\ clears = <<>>

\* the model call of call r succeeds in this step
SuccessStep(r) ==
    LET s == http[r].sessionId
    IN /\ http[r].pc = "gemini"
       /\ http'[r].pc # "gemini"
       /\ ~http'[r].aiResponse.exhausted
       /\ completions'[s] = Append(completions[s], r)

\* POST /clear-history is answered for session s in this step
ClearStep(s) ==
    /\ Len(clears') = Len(clears) + 1
    /\ LastClear'.body
    /\ LastClear'.session = s

\* C25: a step changes the turns stored for a session only by appending the
\* user turn and the model turn of a call on that session whose model call
\* succeeds in the step, or by leaving none when /clear-history names that
\* session; every other step (a failed candidate, a quota fallback, the end
\* of a transcription or a synthesis, a timeout, a worker event, a request or
\* a clear on another session) leaves them as they were.
C25_HistoryChanges ==
    [][\A s \in Sessions :
          StoredHistory(s)' # StoredHistory(s) =>
              \/ \E r \in HttpIds :
                    /\ http[r].sessionId = s
                    /\ SuccessStep(r)
                    /\ StoredHistory(s)' =
                          StoredHistory(s) \o TurnsOf(<<r>>)'
              \/ /\ ClearStep(s)
                 /\ StoredHistory(s)' = <<>>]_vars

\* session s1 holds the two turns of a request whose synthesis failed, after
\* the default session was cleared
C25_Witness ==
    \E r \in HttpIds :
        /\ http[r].sessionId = "s1"
        /\ http[r].pc = "done"
        /\ http[r].res.audio = "null"
        /\ http[r].synth \notin {"", "ok"}
        /\ StoredHistory("s1") = TurnsOf(<<r>>)
        /\ clears = <<Cleared(TRUE, "default", 200)>>

\* the timer of request k fires in this step
TimeoutStep(k) == timer[k].st = "armed" /\ timer'[k].st = "fired"

\* C26: the step in which the timer of request k fires rejects k and takes k
\* out of the pending table, and changes nothing else: the worker handle, the
\* processes, the stdout buffer and every other request, its timer and its
\* place in the table stay as they were.  Whenever the line of a response
\* with the id of a timed-out request arrives afterwards, the handler settles
\* nothing and changes neither the table nor a timer nor the worker.
C26_TimeoutReleasesOnlyCaller ==
    /\ [][\A k \in ReqIds :
            TimeoutStep(k) =>
                /\ promise'[k].state = "rejected"
                /\ speechPending' = speechPending \ {k}
                /\ UNCHANGED <<speechWorker, proc, speechWorkerStdoutBuf>>
                /\ \A j \in ReqIds \ {k} :
                      promise'[j] = promise[j] /\ timer'[j] = timer[j]]_vars
    /\ [](CanEmitData =>
            \A k \in ReqIds, w \in WorkerMessages :
                (timer[k].st = "fired" /\ w.id = k) =>
                    LET m == onStdoutData(Mgr, LineOf(w))
                    IN /\ m.promise = promise
                       /\ m.pending = speechPending
                       /\ m.timer = timer
                       /\ m.micro = microtasks
                       /\ m.worker = speechWorker
                       /\ m.proc = proc
                       /\ m.buf = <<>>)

\* request 1 timed out and its caller has run, while request 2 still waits
\* for the same worker, which is alive and can answer either
C26_Witness ==
    /\ timer[1].st = "fired"
    /\ promise[1].err.tag = "timeout"
    /\ microtasks = <<>>
    /\ speechPending = {2}
    /\ timer[2].st = "armed"
    /\ speechWorker = 1
    /\ proc[1] = "running"

\* The lines the handler has to pass over: an empty one, a blank one, one
\* that is no JSON, a message without id, a message whose id has no entry.
BadLines ==
    {<<NL>>, <<SP, NL>>, <<Junk, NL>>}
        \cup {LineOf(w) : w \in {x \in WorkerMessages :
                                    x.id = 0 \/ x.id \notin speechPending}}

\* C27: whenever stdout delivers a line that is empty, is no JSON, has no id
\* or has an id without entry, the handler leaves the pending table, every
\* promise, every timer and the worker as they were; and when the response
\* to a pending request follows in the same chunk, that line is handled as
\* if it had arrived alone.
C27_BadLineChangesNothing ==
    CanEmitData =>
        /\ \A b \in BadLines :
              onStdoutData(Mgr, b) = [Mgr EXCEPT !.buf = <<>>]
        /\ \A v \in {x \in WorkerMessages : x.id \in speechPending} :
              LET alone == onStdoutData([Mgr EXCEPT !.buf = <<>>], LineOf(v))
              IN \A b \in BadLines : onStdoutData(Mgr, b \o LineOf(v)) = alone

\* text that is no JSON is in the buffer, waiting for its newline, while
\* requests are pending and one has been answered
C27_Witness ==
    /\ CanEmitData
    /\ speechWorkerStdoutBuf = <<Junk>>
    /\ Cardinality(speechPending) >= 2
    /\ \E k \in ReqIds : promise[k].state = "resolved"

\* the speech worker manager with a worker whose output is not all ASCII
NextFraming ==
    \/ \E ms \in {DefaultTimeoutMs}, o \in SpawnOutcomes, wt \in BOOLEAN :
            ClientRequest(ms, o, wt)
    \/ ManagerEvents(FramingChunks)

SpecFraming == InitWorker /\ [][NextFraming]_vars

\* the handler given the stream s in two chunks, cut after i bytes
InTwoChunks(s, i) ==
    onStdoutData(onStdoutData(Mgr, SubSeq(s, 1, i)), SubSeq(s, i + 1, Len(s)))

\* every cut of the stream s gives what s gives in one chunk
CutAnywhere(s) == \A i \in 0..Len(s) : InTwoChunks(s, i) = onStdoutData(Mgr, s)

\* the streams of one or two lines the worker may print for pending requests
AsciiStreams ==
    LET W == {w \in WorkerMessages : w.id \in speechPending}
    IN {LineOf(w) : w \in W} \cup {LineOf(w) \o LineOf(v) : w \in W, v \in W}
          \cup {<<SP>> \o Encode(w) \o <<SP, NL>> : w \in W}
          \cup {<<Junk, NL>> \o LineOf(w) : w \in W}

AccentedStreams ==
    {RawLineOf(w) : w \in {x \in WorkerAccented : x.id \in speechPending}}

\* C28: whenever the worker's stdout can deliver, every cut of a stream into
\* two chunks leaves the manager (the requests settled and with what, the
\* pending table, the timers, the buffer) as the uncut stream does.
C28_ChunkingIndependent ==
    (CanEmitData /\ speechWorkerStdoutBuf = <<>>) =>
        \A s \in AsciiStreams \cup AccentedStreams : CutAnywhere(s)

\* the same for the streams that are cut between characters only
C28_BetweenCharacters ==
    (CanEmitData /\ speechWorkerStdoutBuf = <<>>) =>
        \A s \in AsciiStreams : CutAnywhere(s)

\* a chunk without newline is kept in the buffer and settles nothing
C28_PartialLineKept ==
    CanEmitData =>
        \A w \in WorkerOk :
            speechWorkerStdoutBuf = <<>> =>
                onStdoutData(Mgr, <<H1(w)>>) = [Mgr EXCEPT !.buf = <<H1(w)>>]

\* a request was resolved with a payload the worker never sent
C28_Garbled ==
    \E k \in ReqIds :
        /\ promise[k].state = "resolved"
        /\ promise[k].msg.text = Garbled(Accent(k))

\* C29: once a /talk request has responded, none of its temp files (the
\* uploaded input, the normalized WAV) is on the disk.
C29_VoiceTempFilesDeleted ==
    \A r \in HttpIds :
        (http[r].kind = "talk" /\ http[r].res.sent > 0) => http[r].files = {}

\* the same for the requests whose transcoder succeeded: after a failed, a
\* timed-out or an unusable transcription, and after a success
C29_AfterTranscription ==
    \A r \in HttpIds :
        (http[r].kind = "talk" /\ http[r].res.sent > 0
            /\ http[r].transcode = "ok") => http[r].files = {}

\* the /chat requests that were answered with a reply (status 200)
ChatReplies ==
    {r \in HttpIds : /\ http[r].kind = "chat"
                     /\ http[r].res.sent > 0
                     /\ http[r].res.status = 200}

\* the received, model-done and completion events that request r logged
StageEvents(r) ==
    SelectSeq(http[r].stages,
              LAMBDA e : e \in {ChatReceived, ChatGeminiDone, Complete("chat")})

\* C30: every /chat request that was answered with a reply has logged the
\* received event, then the model-done event, then a completion event, by the
\* time the response is sent: with audio, for the quota-fallback reply and
\* when the synthesis failed.
C30_StageOrder ==
    \A r \in ChatReplies :
        StageEvents(r) = <<ChatReceived, ChatGeminiDone, Complete("chat")>>

\* every reply of /chat was preceded by the received event and then the
\* model-done event; the reply with audio also by the completion event
C30_ReceivedThenModelDone ==
    \A r \in ChatReplies :
        /\ Len(http[r].stages) >= 2
        /\ SubSeq(http[r].stages, 1, 2) = <<ChatReceived, ChatGeminiDone>>
        /\ http[r].res.audio = "data" =>
                http[r].stages = <<ChatReceived, ChatGeminiDone,
                                   "tts-requested", Complete("chat")>>

\* the quota-fallback reply and the reply whose synthesis failed are sent
\* with no completion event logged
C30_NoCompletionEvent ==
    \A r \in ChatReplies :
        /\ http[r].aiResponse.exhausted =>
                http[r].stages = <<ChatReceived, ChatGeminiDone>>
        /\ http[r].res.ttsError # "" =>
                http[r].stages = <<ChatReceived, ChatGeminiDone,
                                   "tts-requested", "tts-failed">>

\* a quota-fallback reply has been sent
C30_QuotaReplySent == \E r \in ChatReplies : http[r].aiResponse.exhausted

\* a reply whose synthesis failed has been sent
C30_SynthesisFailedSent == \E r \in ChatReplies : http[r].res.ttsError # ""

\* no /chat or /talk request is being handled
OneAtATime ==
    \A r \in HttpIds : http[r].kind \in {"chat", "talk"} => http[r].pc = "done"

\* the text path and the voice path, one request after the other, with the
\* worker disabled: transcription and synthesis are one spawnSync each, and
\* the handlers around them are the same code as with the worker
NextRoutes ==
    \/ /\ OneAtATime
       /\ \E sid \in SessionInputs : PostChat(sid)
    \/ /\ OneAtATime
       /\ \E sid \in SessionInputs, hasFile \in BOOLEAN, ff \in FfOutcomes,
             py \in PyOutcomes :
               PostTalk(sid, hasFile, ff, "running", FALSE, py)
    \/ \E r \in Waiting, out \in GeminiOutcomes, shot \in ShotOutcomes :
            GeminiReturn(r, out, "running", FALSE, shot)

SpecRoutes == InitResponder /\ [][NextRoutes]_vars

\* A stage without the route in its name.
Generic(stage) ==
    CASE stage = ChatGeminiDone -> "gemini-done"
      [] stage \in {Complete("chat"), Complete("talk")} -> "complete"
      [] stage \in {"chat-error", "voice-error"} -> "error"
      [] OTHER -> stage

\* The stages request r logged after it had called the responder: all but
\* 'chat-received' for /chat, those after 'gemini-request' for /talk.
FromRespond(r) ==
    LET st == http[r].stages
        i == IF http[r].kind = "chat" THEN 1
             ELSE CHOOSE j \in 1..Len(st) : st[j] = "gemini-request"
    IN [j \in 1..(Len(st) - i) |-> Generic(st[i + j])]

\* a /chat request and a /talk request that have both called the responder
\* and were answered after the same responder result and synthesis result
SamePath(c, t) ==
    /\ http[c].kind = "chat" /\ http[t].kind = "talk"
    /\ http[c].res.sent > 0 /\ http[t].res.sent > 0
    /\ http[c].respondCalls > 0 /\ http[t].respondCalls > 0
    /\ http[c].res.status = http[t].res.status
    /\ http[c].aiResponse = http[t].aiResponse
    /\ http[c].res.audio = http[t].res.audio
    /\ http[c].res.ttsError = http[t].res.ttsError

\* C31: from the call of the responder on, a /talk request logs the same
\* stages as a /chat request with the same results (responder call,
\* model-done, synthesis, completion), and its response has the same fields
\* plus userText.
C31_VoiceAsText ==
    \A c, t \in HttpIds :
        SamePath(c, t) =>
            /\ FromRespond(t) = FromRespond(c)
            /\ http[t].res.fields = http[c].res.fields \cup {"userText"}

\* what the two paths do share: the status, the reply, the audio and the
\* synthesis error follow from the same results, the stages agree but for
\* the model-done and completion events, and the fields but for userText
\* and piperSpeakerId
C31_SameButEvents ==
    \A c, t \in HttpIds :
        SamePath(c, t) =>
            /\ http[t].res.body = http[c].res.body
            /\ SelectSeq(FromRespond(t),
                         LAMBDA e : e \notin {"gemini-done", "complete"})
                = SelectSeq(FromRespond(c),
                            LAMBDA e : e \notin {"gemini-done", "complete"})
            /\ http[t].res.fields \ {"userText"}
                = http[c].res.fields \ {"piperSpeakerId"}
            /\ http[t].res.status = 200 =>
                    http[t].res.userText = http[t].userText

\* both routes have answered with audio
C31_BothWithAudio ==
    \E c, t \in HttpIds : SamePath(c, t) /\ http[c].res.audio = "data"

\* both routes have answered with the quota-fallback reply
C31_BothQuota ==
    \E c, t \in HttpIds : SamePath(c, t) /\ http[c].aiResponse.exhausted

\* the /chat and /talk requests answered with a failure (4xx or 5xx)
Failures ==
    {r \in HttpIds : /\ http[r].kind \in {"chat", "talk"}
                     /\ http[r].res.sent > 0
                     /\ http[r].res.status >= 400}

\* C32: a /chat or /talk request that was answered with a failure has logged
\* at least one event under its trace (request id and session id) before the
\* response was sent.
C32_FailuresLogged == \A r \in Failures : http[r].stages # <<>>

\* the failures that were logged: every 5xx, and the 400 for an unusable
\* transcript; the only one that was not is the 400 for a missing upload
C32_AllButMissingUpload ==
    \A r \in Failures :
        IF http[r].kind = "talk" /\ http[r].upload = "none"
        THEN http[r].stages = <<>> /\ http[r].res.status = 400
        ELSE /\ http[r].stages # <<>>
             /\ http[r].res.status = 400 =>
                    http[r].stages[Len(http[r].stages)] = "stt-rejected"
             /\ (http[r].res.status = 500 /\ ffmpegPath) =>
                    http[r].stages[Len(http[r].stages)]
                        \in {"chat-error", "voice-error"}

\* a /talk request without an upload has been answered
C32_MissingUploadAnswered ==
    \E r \in Failures : http[r].kind = "talk" /\ http[r].upload = "none"

\* h is made of exchanges: a user turn, then the model turn of the same call
Exchanges(h) ==
    /\ Len(h) % 2 = 0
    /\ \A i \in 1..Len(h) :
            h[i].role = IF i % 2 = 1 THEN "user" ELSE "model"
    /\ \A i \in {j \in 1..Len(h) : j % 2 = 1} :
            \E r \in HttpIds :
                /\ Succeeded(r)
                /\ h[i] = Turn("user", http[r].userText)
                /\ h[i + 1] = Turn("model", http[r].aiResponse.text)

\* C33: with calls of processWithGemini interleaving on a session, the
\* stored history of every session (and every history array a call still
\* holds) has even length, alternates user and model turns, and each model
\* turn directly follows the user turn of the same call.
C33_ExchangesAreAtomic ==
    /\ \A s \in Sessions : Exchanges(StoredHistory(s))
    /\ \A x \in ArrIds : Exchanges(heap[x])

\* two calls on one session were awaiting the model together, and the one
\* made last completed first: the history is its exchange, then the other's
C33_Witness ==
    \E s \in Sessions :
        /\ http[1].sessionId = s /\ http[2].sessionId = s
        /\ StoredHistory(s) =
              <<Turn("user", UserMessage(2)),
                Turn("model", http[2].aiResponse.text),
                Turn("user", UserMessage(1)),
                Turn("model", http[1].aiResponse.text)>>

\* /clear-history was answered for session s after call r had read the
\* array of s from the map
ClearedSince(r, s) ==
    \E i \in 1..Len(clears) :
        /\ i > http[r].loaded
        /\ clears[i].body
        /\ clears[i].session = s

\* the user turn of call r is among the turns h
HasTurnOf(h, r) == \E i \in 1..Len(h) : h[i] = Turn("user", UserMessage(r))

\* C34: once /clear-history was answered for session s, the stored history
\* of s holds no turn of a call that had read the history of s before: a
\* call that was awaiting the model during the clear and succeeds afterwards
\* leaves the stored history as it is, and the next call on s sends no
\* earlier turn.
C34_ClearDiscardsInFlight ==
    /\ [](\A r \in HttpIds, s \in Sessions :
            (/\ http[r].respondCalls > 0
             /\ http[r].sessionId = s
             /\ ClearedSince(r, s)) => ~HasTurnOf(StoredHistory(s), r))
    /\ [][\A r \in HttpIds, s \in Sessions :
            (/\ http[r].sessionId = s
             /\ ClearedSince(r, s)
             /\ SuccessStep(r)) => StoredHistory(s)' = StoredHistory(s)]_vars
    /\ [][\A r \in HttpIds, s \in Sessions :
            (/\ CallBegins(r)
             /\ http'[r].sessionId = s
             /\ chatSessions[s] = 0) =>
                /\ StoredHistory(s)' = <<>>
                /\ http'[r].chatHistory =
                      <<Turn("user", SYSTEM_INSTRUCTION),
                        Turn("model", Acknowledgment)>>]_vars

\* call 1 was awaiting the model when its session was cleared and has
\* succeeded since; call 2, made after the clear, awaits the model with the
\* session's new, empty history
C34_Witness ==
    \E s \in Sessions :
        /\ http[1].sessionId = s /\ http[2].sessionId = s
        /\ ClearedSince(1, s)
        /\ Succeeded(1)
        /\ completions[s] = <<1>>
        /\ http[2].pc = "gemini"
        /\ ~ClearedSince(2, s)
        /\ StoredHistory(s) = <<>>

\* C35: with calls of processWithGemini interleaving on activeModelId and
\* model, the chat a call is awaiting was started on the model of the
\* candidate that call is trying, whatever another call has switched the
\* active model to since.
C35_MessageOnOwnCandidate ==
    \A r \in HttpIds :
        http[r].pc = "gemini" =>
            http[r].chat = getModel(MODEL_CANDIDATES[http[r].candidate])

\* two calls await the model on different candidates, and the active model
\* is no longer the one call 1 sent its message on
C35_Witness ==
    /\ http[1].pc = "gemini" /\ http[2].pc = "gemini"
    /\ http[1].candidate = 2 /\ http[2].candidate = 1
    /\ http[1].chat # http[2].chat
    /\ model = http[2].chat
    /\ activeModelId # MODEL_CANDIDATES[http[1].candidate]

\* C36: a speech request is settled once.  While it is pending it is in the
\* pending table with its timer armed and nothing has resolved or rejected
\* it; whichever of the response, the timeout, the worker's error or exit
\* and the failed write comes first resolves or rejects it, takes it out of
\* the table and disables its timer; and no later step settles it again,
\* changes its outcome, or re-arms its timer.
C36_SettledOnce ==
    /\ [](\A k \in ReqIds :
            /\ promise[k].calls <= 1
            /\ promise[k].state = "pending" =>
                  /\ promise[k].calls = 0
                  /\ k \in speechPending
                  /\ timer[k].st = "armed"
            /\ Settled(k) =>
                  /\ k \notin speechPending
                  /\ timer[k].st # "armed"
                  /\ promise[k].err.tag # "disabled" => promise[k].calls = 1)
    /\ [][\A k \in ReqIds :
            Settled(k) =>
                /\ promise'[k] = promise[k]
                /\ timer'[k] = timer[k]
                /\ k \notin speechPending']_vars

\* each way of settling has happened to one request, and a worker exit came
\* after them
C36_Witness ==
    /\ \E k \in ReqIds : promise[k].state = "resolved"
    /\ \E k \in ReqIds : Settled(k) /\ promise[k].err.tag = "timeout"
    /\ \E k \in ReqIds : Settled(k) /\ promise[k].err.tag = "write"
    /\ \E p \in Pids : proc[p] = "exited"

\* request r is at an await that will be continued: the model call, or a
\* speech request that is pending with its timer armed or whose reaction is
\* queued
AtAwait(r) ==
    \/ http[r].pc = "gemini"
    \/ /\ http[r].pc \in {"stt", "tts"}
       /\ LET k == http[r].speech
          IN /\ k \in ReqIds
             /\ \/ promise[k].state = "pending" /\ timer[k].st = "armed"
                \/ Settled(k) /\ \E i \in 1..Len(microtasks) : microtasks[i] = k

\* C37: a /chat or /talk request sends one response: none was sent while the
\* handler is at an await, one has been sent when the handler has ended, on
\* every path, and never a second one.
C37_OneResponse ==
    \A r \in HttpIds :
        http[r].kind \in {"chat", "talk"} =>
            /\ http[r].res.sent <= 1
            /\ http[r].res.sent = 1 <=> http[r].pc = "done"
            /\ http[r].res.sent = 0 => AtAwait(r)

\* a /talk request was transcribed, answered by the model, failed to
\* synthesize, and has sent its one response
C37_Witness ==
    \E r \in HttpIds :
        /\ http[r].kind = "talk"
        /\ http[r].sttCalls = 1 /\ http[r].respondCalls = 1
        /\ http[r].ttsCalls = 1
        /\ http[r].res.ttsError # ""
        /\ http[r].res.sent = 1

\* C38: with the persistent worker enabled, whenever a request is in the
\* pending table the manager holds a worker handle, that of a child it has
\* spawned.
C38_PendingImpliesWorker ==
    (useSpeechWorker /\ speechPending # {}) =>
        /\ speechWorker # 0
        /\ speechWorker \in Spawned(Mgr)

\* a request is pending on the second worker, spawned after the first had
\* exited and its requests were rejected
C38_Witness ==
    /\ useSpeechWorker
    /\ proc[1] = "exited"
    /\ speechWorker = 2
    /\ speechPending # {}
    /\ \E k \in ReqIds : promise[k].err.tag = "exit"

\* A line the worker prints unasked (it has no id): its text names the child
\* that printed it.
Hello(p) == Response(0, TRUE, <<"ready", p>>, <<>>)

\* what child p may print: its own line, whole or in two parts, and the
\* whole lines of responses to pending requests
ChunksOf(p) ==
    {LineOf(Hello(p)), <<H1(Hello(p))>>, <<H2(Hello(p)), NL>>}
        \cup {LineOf(w) : w \in {x \in WorkerOk : x.id \in speechPending}}

\* the children that have emitted 'exit' and whose stdout is still open
Draining == {p \in Pids : proc[p] = "draining"}

\* child p emits 'exit' before its stdout has ended: the streams of a child
\* may still be open when 'exit' is emitted
WorkerExitOpen(p) ==
    /\ Idle
    /\ proc[p] = "running"
    /\ SetMgr([onWorkerExit(Mgr, p) EXCEPT !.proc[p] = "draining"])
    /\ UNCHANGED <<useSpeechWorker, appVars, fsVars, logVars>>

\* the stdout of child p, which has exited, emits 'data'
LateData(p, chunk) ==
    /\ Idle
    /\ proc[p] = "draining"
    /\ LET m == onStdoutData(Mgr, chunk)
       IN Len(m.buf) <= MaxBuf /\ SetMgr(m)
    /\ UNCHANGED <<useSpeechWorker, appVars, fsVars, logVars>>

\* the stdout of child p, which has exited, ends
StdoutEnd(p) ==
    /\ Idle
    /\ proc[p] = "draining"
    /\ SetMgr([Mgr EXCEPT !.proc[p] = "exited"])
    /\ UNCHANGED <<useSpeechWorker, appVars, fsVars, logVars>>

\* the speech worker manager over the life of a worker and its replacement
NextRestart ==
    \/ ClientRequest(DefaultTimeoutMs, "running", FALSE)
    \/ \E k \in ReqIds : TimeoutFires(k)
    \/ \E p \in Pids : WorkerError(p)
    \/ \E p \in Pids : WorkerExit(p)
    \/ \E p \in Alive : WorkerExitOpen(p)
    \/ \E p \in Alive : \E chunk \in ChunksOf(p) : StdoutData(p, chunk)
    \/ \E p \in Draining : \E chunk \in ChunksOf(p) : LateData(p, chunk)
    \/ \E p \in Draining : StdoutEnd(p)
    \/ RunMicrotask(TRUE)

SpecRestart == InitWorker /\ [][NextRestart]_vars

\* C39: what the stdout buffer holds was written by the worker the manager
\* holds: no partial line and no late chunk of a worker that has exited is
\* in the buffer of its replacement.
C39_NoMixing ==
    speechWorker # 0 =>
        \A i \in 1..Len(speechWorkerStdoutBuf) :
            speechWorkerStdoutBuf[i].m = Hello(speechWorker)

\* the buffer is empty when a new worker starts: a partial line that the old
\* worker left is discarded by the step that spawns the replacement
C39_EmptyAtStart ==
    [][(speechWorker' # speechWorker /\ speechWorker' # 0) =>
            speechWorkerStdoutBuf' = <<>>]_vars

\* the second worker runs, the buffer holds the start of a line of the first,
\* and the whole response line of the second worker for a pending request
\* would be dropped with it
C39_ResponseLost ==
    /\ speechWorker = 2
    /\ proc[2] = "running"
    /\ speechWorkerStdoutBuf = <<H1(Hello(1))>>
    /\ \E k \in speechPending :
          LET w == Response(k, TRUE, Payload(k), <<>>)
          IN onStdoutData(Mgr, LineOf(w)).promise[k].state = "pending"
====
